---- MODULE Spec2Model ----
(***************************************************************************)
(* calendar.md: the multi-format date parser (parsers/dateParser.ts) and   *)
(* the part of CalendarView that projects parsed task lines to calendar    *)
(* events and writes drag/drop reschedules back into the markdown text.    *)
(*                                                                         *)
(* Representation.  A line is a sequence of tokens.  A token is a 4-tuple  *)
(*   <<"ch",   name, 0, 0>>   one character or one word of text            *)
(*   <<"date", "",   m, d>>   the literal 2025-mm-dd (shape \d{4}-\d{2}-\d{2}) *)
(*   <<"time", pad,  h, m>>   the literal h:mm (pad = "1") or hh:mm ("2")  *)
(* Offsets (start, end) count tokens, 0-based and half-open as in the      *)
(* source.  A moment is the number of minutes since 2025-01-01 00:00.      *)
(***************************************************************************)
EXTENDS Integers, Sequences, FiniteSets, TLC

\* ------------------------------------------------------------------ tokens
Ch(c) == <<"ch", c, 0, 0>>
DateTok(m, d) == <<"date", "", m, d>>
TimeTok(pad, h, m) == <<"time", pad, h, m>>

SP == Ch(" ")
TAB == Ch("\t")

IsWs(t) == t = SP \/ t = TAB
IsDateShape(t) == t[1] = "date"
IsTimeShape(t) == t[1] = "time"

\* ---------------------------------------------------------------- calendar
MonthLen == <<31, 28, 31, 30, 31, 30, 31, 31, 30, 31, 30, 31>>

RECURSIVE DaysBefore(_)
DaysBefore(m) == IF m <= 1 THEN 0 ELSE MonthLen[m - 1] + DaysBefore(m - 1)

MinutesPerDay == 24 * 60

\* moment("YYYY-MM-DD").isValid(): a real calendar date
DateValid(t) == /\ t[3] \in 1..12
                /\ t[4] >= 1
                /\ t[4] <= MonthLen[t[3]]

\* moment("YYYY-MM-DD"): local midnight of that day
MomentOfDate(t) == (DaysBefore(t[3]) + t[4] - 1) * MinutesPerDay

DayOf(mt) == mt \div MinutesPerDay
MinOfDay(mt) == mt % MinutesPerDay
HourOf(mt) == MinOfDay(mt) \div 60
MinuteOf(mt) == MinOfDay(mt) % 60

\* date.hour(h).minute(m).second(0): setters on a moment, overflow bubbles up
SetHourMinute(mt, h, m) == DayOf(mt) * MinutesPerDay + h * 60 + m

RECURSIVE MonthOfDay(_, _)
MonthOfDay(doy, m) ==
    IF m >= 12 \/ doy < DaysBefore(m + 1) THEN m ELSE MonthOfDay(doy, m + 1)

\* date.format("YYYY-MM-DD")
FormatYMD(mt) ==
    LET doy == DayOf(mt)
        m == MonthOfDay(doy, 1)
    IN DateTok(m, doy - DaysBefore(m) + 1)

\* date.format("HH:mm")
FormatHHmm(mt) == TimeTok("2", HourOf(mt), MinuteOf(mt))

\* --------------------------------------------------------------- sequences
\* line.substring(a, b) / line.slice(a, b) with 0-based half-open offsets
Slice(s, a, b) == IF b <= a THEN <<>> ELSE SubSeq(s, a + 1, b)

RECURSIVE TrimStart(_)
TrimStart(s) == IF s # <<>> /\ IsWs(Head(s)) THEN TrimStart(Tail(s)) ELSE s

RECURSIVE TrimEnd(_)
TrimEnd(s) ==
    IF s # <<>> /\ IsWs(s[Len(s)]) THEN TrimEnd(SubSeq(s, 1, Len(s) - 1)) ELSE s

Trim(s) == TrimStart(TrimEnd(s))

\* line.indexOf(tok, from): 0-based offset of the first occurrence, -1 if none
RECURSIVE IndexOf(_, _, _)
IndexOf(line, tok, from) ==
    IF from >= Len(line) THEN -1
    ELSE IF line[from + 1] = tok THEN from
    ELSE IndexOf(line, tok, from + 1)

\* offset of the first non-whitespace token at or after offset i (\s*)
RECURSIVE SkipWs(_, _)
SkipWs(line, i) ==
    IF i < Len(line) /\ IsWs(line[i + 1]) THEN SkipWs(line, i + 1) ELSE i

At(line, i) == IF i >= 0 /\ i < Len(line) THEN line[i + 1] ELSE Ch("")

\* ------------------------------------------------------------ DateFieldType
Due == "due"
Start == "start"
Scheduled == "scheduled"
Created == "created"
Done == "completed"
Cancelled == "cancelled"

DateFieldType == {Due, Start, Scheduled, Created, Done, Cancelled}

\* DATE_SYMBOLS: the emoji of each type, named by code point
\*   U+1F4C5 calendar, U+1F4C6 tear-off calendar, U+1F5D3 spiral calendar,
\*   U+1F6EB departure, U+23F3 / U+231B hourglass, U+2795 plus,
\*   U+2705 check mark, U+274C cross mark
DATE_SYMBOLS ==
    [t \in DateFieldType |->
        CASE t = Due -> <<Ch("U+1F4C5"), Ch("U+1F4C6"), Ch("U+1F5D3")>>
          [] t = Start -> <<Ch("U+1F6EB")>>
          [] t = Scheduled -> <<Ch("U+23F3"), Ch("U+231B")>>
          [] t = Created -> <<Ch("U+2795")>>
          [] t = Done -> <<Ch("U+2705")>>
          [] t = Cancelled -> <<Ch("U+274C")>>]

\* the variation selector U+FE0F
VS16 == Ch("U+FE0F")

\* EMOJI_DATE_PATTERNS: the order of the six scans and the character class of each
EMOJI_DATE_PATTERNS == <<Due, Start, Scheduled, Created, Done, Cancelled>>

SymbolSet(type) == {DATE_SYMBOLS[type][i] : i \in 1..Len(DATE_SYMBOLS[type])}

\* A ParsedDateField
Field(type, date, raw, start, end, format, hasTime) ==
    [type |-> type, date |-> date, raw |-> raw, start |-> start, end |-> end,
     format |-> format, hasTime |-> hasTime]

\* ---------------------------------------------------------- emoji grammar
\* One attempt of /[symbols]\uFE0F?\s*(date)(?:\s+(time))?/ at offset i:
\* <<matched, end, dateTok, hasTimeGroup, timeTok>>
EmojiMatchAt(line, type, i) ==
    IF At(line, i) \notin SymbolSet(type) THEN <<FALSE, i, SP, FALSE, SP>>
    ELSE
      LET j == IF At(line, i + 1) = VS16 THEN i + 2 ELSE i + 1
          k == SkipWs(line, j)
      IN IF ~IsDateShape(At(line, k)) THEN <<FALSE, i, SP, FALSE, SP>>
         ELSE
           LET p == SkipWs(line, k + 1)
           IN IF p > k + 1 /\ IsTimeShape(At(line, p))
              THEN <<TRUE, p + 1, At(line, k), TRUE, At(line, p)>>
              ELSE <<TRUE, k + 1, At(line, k), FALSE, SP>>

\* the while ((match = re.exec(line)) !== null) loop of one pattern
RECURSIVE EmojiScan(_, _, _)
EmojiScan(line, type, from) ==
    IF from >= Len(line) THEN <<>>
    ELSE
      LET m == EmojiMatchAt(line, type, from)
      IN IF ~m[1] THEN EmojiScan(line, type, from + 1)
         ELSE
           LET rest == EmojiScan(line, type, m[2])
               base == MomentOfDate(m[3])
               date == IF m[4] THEN SetHourMinute(base, m[5][3], m[5][4]) ELSE base
           IN IF DateValid(m[3])
              THEN <<Field(type, date, Slice(line, from, m[2]), from, m[2],
                           "tasks", m[4])>> \o rest
              ELSE rest

RECURSIVE EmojiTypes(_, _)
EmojiTypes(line, n) ==
    IF n > Len(EMOJI_DATE_PATTERNS) THEN <<>>
    ELSE EmojiScan(line, EMOJI_DATE_PATTERNS[n], 0) \o EmojiTypes(line, n + 1)

extractEmojiDates(line) == EmojiTypes(line, 1)

\* --------------------------------------------------------- simple grammar
\* /@\s*(date)/g
RECURSIVE SimpleScan(_, _)
SimpleScan(line, from) ==
    IF from >= Len(line) THEN <<>>
    ELSE
      LET k == SkipWs(line, from + 1)
      IN IF At(line, from) = Ch("@") /\ IsDateShape(At(line, k))
         THEN LET rest == SimpleScan(line, k + 1)
              IN IF DateValid(At(line, k))
                 THEN <<Field(Due, MomentOfDate(At(line, k)),
                              Slice(line, from, k + 1), from, k + 1,
                              "simple", FALSE)>> \o rest
                 ELSE rest
         ELSE SimpleScan(line, from + 1)

extractSimpleDates(line) == SimpleScan(line, 0)

\* --------------------------------------------------------- kanban grammar
\* /@\{(date)\}/g at offset i
KanbanDateAt(line, i) ==
    /\ At(line, i) = Ch("@")
    /\ At(line, i + 1) = Ch("{")
    /\ IsDateShape(At(line, i + 2))
    /\ At(line, i + 3) = Ch("}")

\* /@@\{(time)\}/ at offset i
KanbanTimeAt(line, i) ==
    /\ At(line, i) = Ch("@")
    /\ At(line, i + 1) = Ch("@")
    /\ At(line, i + 2) = Ch("{")
    /\ IsTimeShape(At(line, i + 3))
    /\ At(line, i + 4) = Ch("}")

\* faulty variant: the offset of the last time token at or after from
KanbanTimeIndex_Last(line, from) ==
    IF \A i \in from..Len(line) : ~KanbanTimeAt(line, i) THEN -1
    ELSE CHOOSE i \in from..Len(line) :
           KanbanTimeAt(line, i) /\ \A j \in i + 1..Len(line) : ~KanbanTimeAt(line, j)

\* timeRe.exec(line): offset of the first time token, -1 if there is none
RECURSIVE KanbanTimeIndex(_, _)
KanbanTimeIndex(line, from) ==
    IF from >= Len(line) THEN -1
    ELSE IF KanbanTimeAt(line, from) THEN from
    ELSE KanbanTimeIndex(line, from + 1)

RECURSIVE KanbanScan(_, _, _, _, _)
KanbanScan(line, from, hasTime, hours, minutes) ==
    IF from >= Len(line) THEN <<>>
    ELSE IF KanbanDateAt(line, from)
    THEN LET rest == KanbanScan(line, from + 4, hasTime, hours, minutes)
             tok == At(line, from + 2)
             base == MomentOfDate(tok)
             date == IF hasTime THEN SetHourMinute(base, hours, minutes) ELSE base
         IN IF DateValid(tok)
            THEN <<Field(Due, date, Slice(line, from, from + 4), from, from + 4,
                         "kanban", hasTime)>> \o rest
            ELSE rest
    ELSE KanbanScan(line, from + 1, hasTime, hours, minutes)

extractKanbanDates(line) ==
    LET ti == KanbanTimeIndex(line, 0)
        hasTime == ti >= 0
        hours == IF hasTime THEN At(line, ti + 3)[3] ELSE 0
        minutes == IF hasTime THEN At(line, ti + 3)[4] ELSE 0
    IN KanbanScan(line, 0, hasTime, hours, minutes)

\* -------------------------------------------------------- dataview grammar
\* DATAVIEW_WRAPPERS, in Object.keys order
DATAVIEW_WRAPPERS == <<Ch("["), Ch("(")>>

CloseOf(open) == IF open = Ch("[") THEN Ch("]") ELSE Ch(")")

\* String.prototype.toLowerCase on one word of the alphabet
LowerName(c) ==
    CASE c = "Due" -> "due"
      [] c = "DUE" -> "due"
      [] c = "Start" -> "start"
      [] c = "Task" -> "task"
      [] OTHER -> c

\* the lower-cased text of a token run; a literal stands for its own digits
KeyNames(s) == [i \in 1..Len(s) |-> IF s[i][1] = "ch" THEN LowerName(s[i][2]) ELSE s[i][1]]

\* DATAVIEW_KEY_ALIASES[key], "" when the key is not in the table
DATAVIEW_KEY_ALIASES(key) ==
    CASE key \in {<<"due">>, <<"due", " ", "date">>, <<"duedate">>} -> Due
      [] key \in {<<"start">>, <<"start", " ", "date">>, <<"startdate">>} -> Start
      [] key \in {<<"scheduled">>, <<"scheduled", " ", "date">>,
                  <<"scheduleddate">>} -> Scheduled
      [] key \in {<<"created">>, <<"created", " ", "date">>,
                  <<"createddate">>} -> Created
      [] key \in {<<"done">>, <<"done", " ", "date">>, <<"donedate">>,
                  <<"completed">>, <<"completion", " ", "date">>,
                  <<"completion">>} -> Done
      [] key \in {<<"cancelled">>, <<"canceled">>, <<"cancelled", " ", "date">>,
                  <<"canceled", " ", "date">>} -> Cancelled
      [] OTHER -> ""

\* findDataviewSeparator: <<found, key, valueIndex>>; "::" is one token
findDataviewSeparator(line, start) ==
    LET sep == IndexOf(line, Ch("::"), start)
    IN IF sep < 0 THEN <<FALSE, <<>>, 0>>
       ELSE <<TRUE, KeyNames(Trim(Slice(line, start, sep))), sep + 1>>

\* findClosingBracket: the loop from offset i; <<found, value, endIndex>>
RECURSIVE ClosingLoop(_, _, _, _, _, _, _)
ClosingLoop(line, start, open, close, i, nesting, escaped) ==
    IF i >= Len(line) THEN <<FALSE, <<>>, 0>>
    ELSE
      LET char == At(line, i)
      IN IF char = Ch("\\")
         THEN ClosingLoop(line, start, open, close, i + 1, nesting, ~escaped)
         ELSE IF escaped
         THEN ClosingLoop(line, start, open, close, i + 1, nesting, FALSE)
         ELSE
           LET n == IF char = open THEN nesting + 1
                    ELSE IF char = close THEN nesting - 1
                    ELSE nesting
           IN IF n < 0 THEN <<TRUE, Trim(Slice(line, start, i)), i + 1>>
              ELSE ClosingLoop(line, start, open, close, i + 1, n, FALSE)

findClosingBracket(line, start, open, close) ==
    ClosingLoop(line, start, open, close, start, 0, FALSE)

HasBracket(s) ==
    \E i \in 1..Len(s) : s[i] \in {Ch("["), Ch("("), Ch("]"), Ch(")")}

\* the while (searchIndex < line.length) loop for one wrapper
RECURSIVE DataviewScan(_, _, _)
DataviewScan(line, open, searchIndex) ==
    IF searchIndex >= Len(line) THEN <<>>
    ELSE
      LET foundIndex == IndexOf(line, open, searchIndex)
      IN IF foundIndex < 0 THEN <<>>
         ELSE
           LET keyInfo == findDataviewSeparator(line, foundIndex + 1)
           IN IF ~keyInfo[1] THEN DataviewScan(line, open, foundIndex + 1)
              ELSE IF HasBracket(Slice(line, foundIndex + 1, keyInfo[3] - 1))
              THEN DataviewScan(line, open, foundIndex + 1)
              ELSE
                LET valueInfo ==
                        findClosingBracket(line, keyInfo[3], open, CloseOf(open))
                IN IF ~valueInfo[1] THEN DataviewScan(line, open, foundIndex + 1)
                   ELSE
                     LET dateType == DATAVIEW_KEY_ALIASES(keyInfo[2])
                         dateStr == Trim(valueInfo[2])
                         rest == DataviewScan(line, open, valueInfo[3])
                     IN IF dateType = "" THEN rest
                        ELSE IF dateStr = <<>> \/ ~IsDateShape(dateStr[1]) THEN rest
                        ELSE IF ~DateValid(dateStr[1]) THEN rest
                        ELSE <<Field(dateType, MomentOfDate(dateStr[1]),
                                     Slice(line, foundIndex, valueInfo[3]),
                                     foundIndex, valueInfo[3],
                                     IF open = Ch("[") THEN "dataview-bracket"
                                     ELSE "dataview-paren",
                                     FALSE)>> \o rest

RECURSIVE DataviewWrappers(_, _)
DataviewWrappers(line, n) ==
    IF n > Len(DATAVIEW_WRAPPERS) THEN <<>>
    ELSE DataviewScan(line, DATAVIEW_WRAPPERS[n], 0) \o DataviewWrappers(line, n + 1)

extractDataviewDates(line) == DataviewWrappers(line, 1)

\* --------------------------------------------------------- extractAllDates
\* formatFilter: "" (unset), "tasks", "dataview", "simple" or "kanban"
Candidates(line, formatFilter) ==
    (IF formatFilter \in {"", "tasks"} THEN extractEmojiDates(line) ELSE <<>>)
    \o (IF formatFilter \in {"", "dataview"} THEN extractDataviewDates(line) ELSE <<>>)
    \o (IF formatFilter \in {"", "simple"} THEN extractSimpleDates(line) ELSE <<>>)
    \o (IF formatFilter \in {"", "kanban"} THEN extractKanbanDates(line) ELSE <<>>)

\* allDates.sort((a, b) => a.start - b.start): stable
RECURSIVE InsertByStart(_, _)
InsertByStart(sorted, f) ==
    IF sorted = <<>> THEN <<f>>
    ELSE IF f.start < Head(sorted).start THEN <<f>> \o sorted
    ELSE <<Head(sorted)>> \o InsertByStart(Tail(sorted), f)

RECURSIVE SortByStart(_)
SortByStart(s) ==
    IF s = <<>> THEN <<>>
    ELSE InsertByStart(SortByStart(SubSeq(s, 1, Len(s) - 1)), s[Len(s)])

\* faulty variant: a field is kept when it starts after the start of the last kept one
RECURSIVE RemoveOverlaps_ByStart(_, _)
RemoveOverlaps_ByStart(filtered, todo) ==
    IF todo = <<>> THEN filtered
    ELSE IF filtered = <<>> \/ filtered[Len(filtered)].start < Head(todo).start
    THEN RemoveOverlaps_ByStart(Append(filtered, Head(todo)), Tail(todo))
    ELSE RemoveOverlaps_ByStart(filtered, Tail(todo))

\* the loop that keeps a field when lastDate.end <= date.start
RECURSIVE RemoveOverlaps(_, _)
RemoveOverlaps(filtered, todo) ==
    IF todo = <<>> THEN filtered
    ELSE IF filtered = <<>> \/ filtered[Len(filtered)].end <= Head(todo).start
    THEN RemoveOverlaps(Append(filtered, Head(todo)), Tail(todo))
    ELSE RemoveOverlaps(filtered, Tail(todo))

extractAllDates(line, formatFilter) ==
    RemoveOverlaps(<<>>, SortByStart(Candidates(line, formatFilter)))

\* ---------------------------------------------------------- getPrimaryDate
\* null
Null == Field("", 0, <<>>, 0 - 1, 0 - 1, "", FALSE)

\* allDates.find((d) => d.type === type): the first such field, Null if none
RECURSIVE FindType(_, _)
FindType(allDates, type) ==
    IF allDates = <<>> THEN Null
    ELSE IF Head(allDates).type = type THEN Head(allDates)
    ELSE FindType(Tail(allDates), type)

\* faulty variant: the fields are walked first, the priority list second
PriorityLoop_FieldFirst(allDates, priorityOrder) ==
    IF \A i \in 1..Len(allDates) :
          \A k \in 1..Len(priorityOrder) : allDates[i].type # priorityOrder[k]
    THEN allDates[1]
    ELSE allDates[CHOOSE i \in 1..Len(allDates) :
                    /\ \E k \in 1..Len(priorityOrder) : allDates[i].type = priorityOrder[k]
                    /\ \A j \in 1..i - 1 :
                          \A k \in 1..Len(priorityOrder) :
                             allDates[j].type # priorityOrder[k]]

\* the loop for (const type of priorityOrder) and the fallback after it
RECURSIVE PriorityLoop(_, _)
PriorityLoop(allDates, priorityOrder) ==
    IF priorityOrder = <<>> THEN allDates[1]
    ELSE LET found == FindType(allDates, Head(priorityOrder))
         IN IF found # Null THEN found
            ELSE PriorityLoop(allDates, Tail(priorityOrder))

\* the body of getPrimaryDate once allDates is extracted
PrimaryAmong(allDates, priorityOrder) ==
    IF Len(allDates) = 0 THEN Null
    ELSE PriorityLoop(allDates, priorityOrder)

getPrimaryDate(line, priorityOrder, formatFilter) ==
    PrimaryAmong(extractAllDates(line, formatFilter), priorityOrder)

\* --------------------------------------------------------------- stripDates
\* faulty variant: the spans are cut from the lowest start to the highest
RECURSIVE CutForward(_, _, _)
CutForward(result, dates, k) ==
    IF k > Len(dates) THEN result
    ELSE CutForward(Slice(result, 0, dates[k].start)
                      \o Slice(result, dates[k].end, Len(result)),
                    dates, k + 1)

CutSpans_Forward(result, dates, i) == CutForward(result, dates, 1)

\* the loop for (i = dates.length - 1; i >= 0; i--) that cuts [start, end)
RECURSIVE CutSpans(_, _, _)
CutSpans(result, dates, i) ==
    IF i < 1 THEN result
    ELSE CutSpans(Slice(result, 0, dates[i].start)
                    \o Slice(result, dates[i].end, Len(result)),
                  dates, i - 1)

\* result.replace(/\s+/g, " ")
RECURSIVE CollapseWs(_)
CollapseWs(s) ==
    IF s = <<>> THEN <<>>
    ELSE IF IsWs(Head(s)) THEN <<SP>> \o CollapseWs(TrimStart(s))
    ELSE <<Head(s)>> \o CollapseWs(Tail(s))

\* the body of stripDates once dates is extracted
StripSpans(line, dates) ==
    IF Len(dates) = 0 THEN line
    ELSE Trim(CollapseWs(CutSpans(line, dates, Len(dates))))

stripDates(line) == StripSpans(line, extractAllDates(line, ""))

\* --------------------------------------------------------------- formatDate
\* the switch (format) of formatDate
FormatSwitch(type, dateStr, timeStr, format, hasValidTime) ==
    CASE format = "tasks" ->
           IF hasValidTime
           THEN <<DATE_SYMBOLS[type][1], SP, dateStr, SP, timeStr>>
           ELSE <<DATE_SYMBOLS[type][1], SP, dateStr>>
      [] format = "dataview-bracket" ->
           IF hasValidTime
           THEN <<Ch("["), Ch(type), Ch("::"), SP, dateStr, Ch("T"), timeStr, Ch("]")>>
           ELSE <<Ch("["), Ch(type), Ch("::"), SP, dateStr, Ch("]")>>
      [] format = "dataview-paren" ->
           IF hasValidTime
           THEN <<Ch("("), Ch(type), Ch("::"), SP, dateStr, Ch("T"), timeStr, Ch(")")>>
           ELSE <<Ch("("), Ch(type), Ch("::"), SP, dateStr, Ch(")")>>
      [] format = "simple" -> <<Ch("@"), SP, dateStr>>
      [] format = "kanban" ->
           IF hasValidTime
           THEN <<Ch("@"), Ch("{"), dateStr, Ch("}"), SP,
                  Ch("@"), Ch("@"), Ch("{"), timeStr, Ch("}")>>
           ELSE <<Ch("@"), Ch("{"), dateStr, Ch("}")>>
      [] OTHER -> <<dateStr>>

\* faulty variant: the time is never written
formatDate_DropsTime(type, date, format, includeTime) ==
    FormatSwitch(type, FormatYMD(date), FormatHHmm(date), format, FALSE)

\* faulty variant: the time counts as present only when the hour is non-zero
formatDate_HourOnly(type, date, format, includeTime) ==
    FormatSwitch(type, FormatYMD(date), FormatHHmm(date), format,
                 includeTime /\ HourOf(date) # 0)

formatDate(type, date, format, includeTime) ==
    LET dateStr == FormatYMD(date)
        timeStr == FormatHHmm(date)
        hasValidTime == includeTime /\ (HourOf(date) # 0 \/ MinuteOf(date) # 0)
    IN FormatSwitch(type, dateStr, timeStr, format, hasValidTime)

\* ---------------------------------------------------------- reconstructLine
\* the canonical order of reconstructLine
CanonicalOrder == <<Start, Scheduled, Due, Created, Done, Cancelled>>

\* new Map<DateFieldType, string>(): no key is set (get gives undefined)
EmptyUpdates == [t \in DateFieldType |-> <<>>]

RECURSIVE AppendInOrder(_, _, _)
AppendInOrder(result, dateUpdates, n) ==
    IF n > Len(CanonicalOrder) THEN result
    ELSE LET formatted == dateUpdates[CanonicalOrder[n]]
         IN AppendInOrder(IF formatted # <<>> THEN result \o <<SP>> \o formatted
                          ELSE result,
                          dateUpdates, n + 1)

reconstructLine(baseLine, dateUpdates) ==
    AppendInOrder(TrimEnd(baseLine), dateUpdates, 1)

\* for (const date of task.allDates) dateUpdates.set(date.type, formatDate(...))
RECURSIVE PreserveDates(_, _)
PreserveDates(dateUpdates, allDates) ==
    IF allDates = <<>> THEN dateUpdates
    ELSE LET d == Head(allDates)
         IN PreserveDates(
              [dateUpdates EXCEPT
                 ![d.type] = formatDate(d.type, d.date, d.format, d.hasTime)],
              Tail(allDates))

\* ------------------------------------------------------------ CalendarView
\* the strip-and-preserve core shared by handleEventDrop and handleEventResize:
\* stripDates, the type-keyed map of the line's own fields, reconstructLine
Rewrite(line, formatFilter) ==
    reconstructLine(stripDates(line),
                    PreserveDates(EmptyUpdates, extractAllDates(line, formatFilter)))

\* names of the alphabet that are one character long (what "." can match)
OneCharNames == {" ", "\t", "x", "-", "[", "]", "(", ")", "@", "{", "}", "T", "\\"}

\* TASK_PREFIX_REGEX = /^(\s*-\s*\[(.)\])\s*/: <<matched, checkMark, length>>
TaskPrefix(line) ==
    LET i == SkipWs(line, 0)
        j == SkipWs(line, i + 1)
    IN IF /\ At(line, i) = Ch("-")
          /\ At(line, j) = Ch("[")
          /\ At(line, j + 1)[1] = "ch"
          /\ At(line, j + 1)[2] \in OneCharNames
          /\ At(line, j + 2) = Ch("]")
       THEN <<TRUE, At(line, j + 1), SkipWs(line, j + 3)>>
       ELSE <<FALSE, SP, 0>>

\* the task pushed by parseMarkdown for a line with a primary date
TaskOf(line, index, checkMark, primaryDate, allDates, stripped) ==
    [id |-> index,
     lineIndex |-> index,
     markdown |-> line,
     title |-> IF stripped = <<>> THEN <<Ch("Untitled Task")>> ELSE stripped,
     date |-> primaryDate.date,
     dateType |-> primaryDate.type,
     allDates |-> allDates,
     hasTime |-> primaryDate.hasTime,
     isKanban |-> primaryDate.format = "kanban",
     completed |-> checkMark # SP]

\* the task branch for the content after the checkbox: <<>> or <<task>>
ParseContent(line, index, checkMark, contentAfterCheckbox, primaryDate, formatFilter) ==
    IF primaryDate = Null THEN <<>>
    ELSE <<TaskOf(line, index, checkMark, primaryDate,
                  extractAllDates(contentAfterCheckbox, formatFilter),
                  Trim(stripDates(contentAfterCheckbox)))>>

\* the task branch once TASK_PREFIX_REGEX has matched
ParsePrefixed(line, index, st, checkMark, contentAfterCheckbox) ==
    ParseContent(line, index, checkMark, contentAfterCheckbox,
                 getPrimaryDate(contentAfterCheckbox, st.datePriority,
                                st.recognizedDateFormat),
                 st.recognizedDateFormat)

\* the prefix test of the task branch
ParsePrefix(line, index, st, prefixMatch) ==
    IF ~prefixMatch[1] THEN <<>>
    ELSE ParsePrefixed(line, index, st, prefixMatch[2],
                       Slice(line, prefixMatch[3], Len(line)))

\* the task branch of parseMarkdown for one line: <<>> or <<task>>
ParseTaskLine(line, index, st) == ParsePrefix(line, index, st, TaskPrefix(line))

\* parseMarkdown over a file without headings: every task is in the Default
\* section; lineIndex is 0-based
RECURSIVE ParseLines(_, _, _)
ParseLines(lines, index, st) ==
    IF index >= Len(lines) THEN <<>>
    ELSE ParseTaskLine(lines[index + 1], index, st) \o ParseLines(lines, index + 1, st)

parseMarkdown(content, st) == ParseLines(content, 0, st)

\* date.format("YYYY-MM-DD HH:mm") and date.format("YYYY-MM-DD")
DateTimeStr(mt) == <<FormatYMD(mt), SP, FormatHHmm(mt)>>
DateOnlyStr(mt) == <<FormatYMD(mt)>>

\* the default event duration, in minutes
DefaultDuration == 30

\* faulty variant: a Due without a time ends the event at the time as parsed (00:00)
DueEndStr_AsParsed(dueField) == DateTimeStr(dueField.date)

\* the end of a timed Start+Due range
DueEndStr(dueField) ==
    IF dueField.hasTime THEN DateTimeStr(dueField.date)
    ELSE DateTimeStr(SetHourMinute(dueField.date, 23, 59))

\* the map callback of updateCalendarEvents
EventOfTask(task) ==
    LET startField == FindType(task.allDates, Start)
        dueField == FindType(task.allDates, Due)
        se ==
          IF task.isKanban /\ task.hasTime
          THEN <<DateTimeStr(task.date), DateTimeStr(task.date + DefaultDuration)>>
          ELSE IF startField # Null /\ dueField # Null
          THEN IF startField.hasTime \/ dueField.hasTime
               THEN <<DateTimeStr(startField.date), DueEndStr(dueField)>>
               ELSE <<DateOnlyStr(startField.date), DateOnlyStr(dueField.date)>>
          ELSE IF startField # Null
          THEN IF startField.hasTime
               THEN <<DateTimeStr(startField.date),
                      DateTimeStr(startField.date + DefaultDuration)>>
               ELSE <<DateOnlyStr(startField.date), DateOnlyStr(startField.date)>>
          ELSE IF dueField # Null
          THEN IF dueField.hasTime
               THEN <<DateTimeStr(dueField.date),
                      DateTimeStr(dueField.date + DefaultDuration)>>
               ELSE <<DateOnlyStr(dueField.date), DateOnlyStr(dueField.date)>>
          ELSE IF task.hasTime
          THEN <<DateTimeStr(task.date), DateTimeStr(task.date + DefaultDuration)>>
          ELSE <<DateOnlyStr(task.date), DateOnlyStr(task.date)>>
    IN [id |-> task.id, start |-> se[1], end |-> se[2],
        durationEditable |-> ~task.isKanban]

updateCalendarEvents(tasks) == [i \in 1..Len(tasks) |-> EventOfTask(tasks[i])]

\* isDefaultDropTime
isDefaultDropTime(date) ==
    \/ (HourOf(date) = 0 /\ MinuteOf(date) = 0)
    \/ (HourOf(date) = 12 /\ MinuteOf(date) = 0)

HasTimeOf(field) == field # Null /\ field.hasTime

\* faulty variant: the end is pulled back only from midnight, not from noon
normalizeAllDayEnd_MidnightOnly(newStart, newEnd, task, startField, dueField) ==
    LET hasExplicitTime == task.hasTime \/ HasTimeOf(startField) \/ HasTimeOf(dueField)
    IN IF newEnd % MinutesPerDay = 0 /\ DayOf(newEnd) > DayOf(newStart)
       THEN IF hasExplicitTime
            THEN SetHourMinute(newEnd - MinutesPerDay, 23, 59)
            ELSE newEnd - MinutesPerDay
       ELSE newEnd

\* normalizeAllDayEnd
normalizeAllDayEnd(newStart, newEnd, task, startField, dueField) ==
    LET hasExplicitTime == task.hasTime \/ HasTimeOf(startField) \/ HasTimeOf(dueField)
    IN IF isDefaultDropTime(newEnd) /\ DayOf(newEnd) > DayOf(newStart)
       THEN IF hasExplicitTime
            THEN SetHourMinute(newEnd - MinutesPerDay, 23, 59)
            ELSE newEnd - MinutesPerDay
       ELSE newEnd

\* l.includes(s): s occurs in l as a contiguous run
Includes(l, s) ==
    \E a \in 0..Len(l) : a + Len(s) <= Len(l) /\ Slice(l, a, a + Len(s)) = s

\* lines.findIndex((l) => l.includes(task.title) && l.includes(oldDateStr))
RECURSIVE FindLine(_, _, _, _)
FindLine(lines, title, oldDateStr, index) ==
    IF index >= Len(lines) THEN 0 - 1
    ELSE IF Includes(lines[index + 1], title) /\ Includes(lines[index + 1], oldDateStr)
    THEN index
    ELSE FindLine(lines, title, oldDateStr, index + 1)

\* handleEventDrop, Start+Due branch: the two entries written to dateUpdates
DropRange(dateUpdates, startField, dueField, newStart, newEnd) ==
    LET startHasTime == HourOf(newStart) # 0 \/ MinuteOf(newStart) # 0
        endHasTime == HourOf(newEnd) # 0 \/ MinuteOf(newEnd) # 0
        deltaMs == newStart - startField.date
        newEndMoment == dueField.date + deltaMs
        finalStartMoment ==
          IF startField.hasTime /\ isDefaultDropTime(newStart)
          THEN SetHourMinute(newStart, HourOf(startField.date), MinuteOf(startField.date))
          ELSE newStart
        finalEnd1 ==
          IF dueField.hasTime /\ isDefaultDropTime(newEnd)
          THEN SetHourMinute(newEndMoment, HourOf(dueField.date), MinuteOf(dueField.date))
          ELSE newEndMoment
        wasMultiDay == DayOf(startField.date) # DayOf(dueField.date)
        isNowSingleDay == DayOf(finalStartMoment) = DayOf(finalEnd1)
        finalEndMoment ==
          IF wasMultiDay /\ isNowSingleDay /\ finalEnd1 <= finalStartMoment
          THEN SetHourMinute(finalEnd1, 23, 59)
          ELSE finalEnd1
        startIncludeTime ==
          startField.hasTime \/ (startHasTime /\ ~isDefaultDropTime(newStart))
        endIncludeTime ==
          dueField.hasTime \/ (endHasTime /\ ~isDefaultDropTime(newEnd))
    IN [dateUpdates EXCEPT
          ![Start] = formatDate(Start, finalStartMoment, startField.format,
                                startIncludeTime),
          ![Due] = formatDate(Due, finalEndMoment, dueField.format, endIncludeTime)]

\* handleEventDrop, single-date branch: the entry written to dateUpdates
DropSingle(dateUpdates, task, newStart) ==
    LET startHasTime == HourOf(newStart) # 0 \/ MinuteOf(newStart) # 0
        primaryDateField == FindType(task.allDates, task.dateType)
    IN IF primaryDateField # Null
       THEN [dateUpdates EXCEPT
               ![primaryDateField.type] =
                  formatDate(primaryDateField.type, newStart, primaryDateField.format,
                             startHasTime \/ primaryDateField.hasTime)]
       ELSE LET typeToAdd == IF task.dateType # "" THEN task.dateType ELSE Due
            IN [dateUpdates EXCEPT
                  ![typeToAdd] = formatDate(typeToAdd, newStart, "tasks", startHasTime)]

\* handleEventDrop: <<found, targetLineIndex, updatedLine>>
handleEventDrop(task, newStart, newEnd, lines) ==
    LET oldDateStr == <<FormatYMD(task.date)>>
        stale == lines[task.lineIndex + 1] # task.markdown
        found == FindLine(lines, task.title, oldDateStr, 0)
        targetLineIndex == IF stale THEN found ELSE task.lineIndex
        baseLine == stripDates(lines[targetLineIndex + 1])
        preserved == PreserveDates(EmptyUpdates, task.allDates)
        startField == FindType(task.allDates, Start)
        dueField == FindType(task.allDates, Due)
        dateUpdates ==
          IF startField # Null /\ dueField # Null
          THEN DropRange(preserved, startField, dueField, newStart, newEnd)
          ELSE DropSingle(preserved, task, newStart)
    IN IF stale /\ found = 0 - 1 THEN <<FALSE, 0 - 1, <<>>>>
       ELSE <<TRUE, targetLineIndex, reconstructLine(baseLine, dateUpdates)>>

\* handleEventResize: <<finalStartMoment, finalEndMoment, isMultiDay>>
ResizeMoments(startField, dueField, newStart, newEnd, newEndMoment) ==
    LET isMultiDay == DayOf(newStart) # DayOf(newEndMoment)
        wasMultiDay ==
          /\ startField # Null
          /\ dueField # Null
          /\ DayOf(startField.date) # DayOf(dueField.date)
        keepTimes == wasMultiDay /\ ~isMultiDay
        finalStartMoment ==
          IF keepTimes /\ startField.hasTime /\ isDefaultDropTime(newStart)
          THEN SetHourMinute(newStart, HourOf(startField.date), MinuteOf(startField.date))
          ELSE newStart
        finalEnd1 ==
          IF keepTimes /\ dueField.hasTime /\ isDefaultDropTime(newEnd)
          THEN SetHourMinute(newEndMoment, HourOf(dueField.date), MinuteOf(dueField.date))
          ELSE newEndMoment
        finalEndMoment ==
          IF keepTimes /\ finalEnd1 <= finalStartMoment
          THEN SetHourMinute(finalEnd1, 23, 59)
          ELSE finalEnd1
    IN <<finalStartMoment, finalEndMoment, isMultiDay>>

\* handleEventResize: "Update Start date if present", "Update Due date if present"
ResizePresent(dateUpdates, startField, dueField, newStart, newEnd, fin) ==
    LET startHasTime == HourOf(newStart) # 0 \/ MinuteOf(newStart) # 0
        endHasTime == HourOf(newEnd) # 0 \/ MinuteOf(newEnd) # 0
        withStart ==
          IF startField # Null
          THEN [dateUpdates EXCEPT
                  ![Start] = formatDate(Start, fin[1], startField.format,
                                        startField.hasTime
                                          \/ (startHasTime /\ ~isDefaultDropTime(newStart)))]
          ELSE dateUpdates
    IN IF dueField # Null
       THEN [withStart EXCEPT
               ![Due] = formatDate(Due, fin[2], dueField.format,
                                   dueField.hasTime
                                     \/ (endHasTime /\ ~isDefaultDropTime(newEnd)))]
       ELSE withStart

\* handleEventResize: the fields added for a range, or the primary field moved
ResizeMissing(dateUpdates, startField, dueField, primaryField, newStart, newEnd, fin) ==
    LET startHasTime == HourOf(newStart) # 0 \/ MinuteOf(newStart) # 0
        endHasTime == HourOf(newEnd) # 0 \/ MinuteOf(newEnd) # 0
    IN IF fin[3] \/ (startHasTime /\ endHasTime)
       THEN LET withStart ==
                  IF startField = Null
                  THEN [dateUpdates EXCEPT
                          ![Start] = formatDate(Start, fin[1], "tasks", startHasTime)]
                  ELSE dateUpdates
            IN IF dueField = Null
               THEN [withStart EXCEPT
                       ![Due] = formatDate(Due, fin[2], "tasks", endHasTime)]
               ELSE withStart
       ELSE IF startField = Null /\ dueField = Null /\ primaryField # Null
       THEN [dateUpdates EXCEPT
               ![primaryField.type] =
                  formatDate(primaryField.type, fin[1], primaryField.format,
                             startHasTime \/ primaryField.hasTime)]
       ELSE dateUpdates

\* handleEventResize once the fields of the task are looked up
ResizeFields(task, startField, dueField, primaryField, newStart, newEnd, baseLine) ==
    reconstructLine(
      baseLine,
      ResizeMissing(
        ResizePresent(PreserveDates(EmptyUpdates, task.allDates),
                      startField, dueField, newStart, newEnd,
                      ResizeMoments(startField, dueField, newStart, newEnd,
                                    normalizeAllDayEnd(newStart, newEnd, task,
                                                       startField, dueField))),
        startField, dueField, primaryField, newStart, newEnd,
        ResizeMoments(startField, dueField, newStart, newEnd,
                      normalizeAllDayEnd(newStart, newEnd, task,
                                         startField, dueField))))

\* handleEventResize: <<wrote, refreshes, updatedLine>>
handleEventResize(task, newStart, newEnd, lines) ==
    IF task.isKanban THEN <<FALSE, FALSE, <<>>>>
    ELSE IF lines[task.lineIndex + 1] # task.markdown THEN <<FALSE, TRUE, <<>>>>
    ELSE <<TRUE, FALSE,
           ResizeFields(task, FindType(task.allDates, Start),
                        FindType(task.allDates, Due),
                        FindType(task.allDates, task.dateType),
                        newStart, newEnd, stripDates(lines[task.lineIndex + 1]))>>

\* ================================================================== inputs
\* date literals of the input lines: 2025-01-31, 2025-02-02, and 2025-02-30
DA == DateTok(1, 31)
DB == DateTok(2, 2)
DBad == DateTok(2, 30)

\* the segments input lines are built from
Segs ==
    << <<TAB, Ch("Task")>>,
       <<Ch("U+1F4C5"), SP, DA, SP, TimeTok("1", 9, 30)>>,
       <<Ch("U+1F6EB"), DB, TAB, TimeTok("2", 0, 0)>>,
       <<Ch("U+231B"), VS16, SP, DA>>,
       <<Ch("["), Ch("done"), Ch("::"), SP, DB, Ch("]")>>,
       <<Ch("["), Ch("Due"), SP, Ch("date"), Ch("::"), SP, DA, Ch("]")>>,
       <<Ch("("), Ch("start"), Ch("::"), DB, Ch("T"), TimeTok("2", 14, 30), Ch(")")>>,
       <<Ch("["), Ch("created"), Ch("::"), SP, DBad, Ch("]"), SP,
         Ch("["), Ch("created"), Ch("::"), SP, DA, Ch("]")>>,
       <<Ch("("), Ch("canceled"), Ch("::"), SP, DB, Ch(")")>>,
       <<Ch("["), Ch("due"), Ch("::"), SP, DA, SP, Ch("U+1F6EB"), SP, DB, Ch("]")>>,
       <<Ch("("), Ch("due"), Ch("::"), DA, SP, Ch("["), Ch("start"), Ch("::"), DB,
         Ch(")"), Ch("]")>>,
       <<Ch("@"), SP, DA>>,
       <<Ch("@"), Ch("{"), DB, Ch("}")>>,
       <<Ch("@"), Ch("@"), Ch("{"), TimeTok("1", 9, 30), Ch("}")>>,
       <<Ch("U+2705"), SP, DA, SP, TimeTok("2", 25, 0)>>,
       <<Ch("@"), Ch("{"), DA, Ch("}"), SP,
         Ch("@"), Ch("@"), Ch("{"), TimeTok("1", 7, 5), Ch("}")>>,
       <<Ch("@"), Ch("@"), Ch("{"), TimeTok("2", 23, 75), Ch("}")>> >>

\* how many segments an input line has at most
MaxSegs == 2

\* the lines of at most n segments, joined by single spaces
RECURSIVE LinesUpTo(_)
LinesUpTo(n) ==
    IF n = 0 THEN {<<>>}
    ELSE LET shorter == LinesUpTo(n - 1)
         IN shorter \cup {IF l = <<>> THEN Segs[k] ELSE l \o <<SP>> \o Segs[k] :
                            l \in shorter, k \in 1..Len(Segs)}

InputLines == LinesUpTo(MaxSegs)

\* formatFilter values: unset, or one DateFormatType
Filters == {"", "tasks", "dataview", "simple", "kanban"}

\* DEFAULT_DATE_PRIORITY
DEFAULT_DATE_PRIORITY == <<Due, Scheduled, Start, Created, Done, Cancelled>>

\* priority orders given to getPrimaryDate
PriorityOrders ==
    {DEFAULT_DATE_PRIORITY, <<>>, <<Cancelled, Start>>}

\* ================================================================== state
VARIABLES
    line,           \* the argument line of a parser call
    call,           \* the parser function called last and its other arguments
    ret,            \* what that call returned
    settings,       \* plugin.settings: recognizedDateFormat, datePriority
    file,           \* the vault's content of the calendar file, as lines
    data,           \* CalendarView.data, split into lines
    currentEvents,  \* CalendarView.currentEvents, in line order
    events,         \* what calendar.setEvents received last
    last,           \* the last edit gesture handled by the view
    calendarFileModes,  \* plugin.calendarFileModes, "" where no entry
    loaded,         \* plugin._loaded
    leaves          \* the workspace's leaves: attached, view type, file

vars == <<line, call, ret, settings, file, data, currentEvents, events, last,
          calendarFileModes, loaded, leaves>>

parserVars == <<line, call, ret>>
viewVars == <<settings, file, data, currentEvents, events, last>>
leafVars == <<calendarFileModes, loaded, leaves>>

NoCall == [fn |-> "", formatFilter |-> "", priorityOrder |-> <<>>, index |-> 0,
           type |-> "", date |-> 0, format |-> "", includeTime |-> FALSE]
NoRet == [fields |-> <<>>, field |-> Null, text |-> <<>>, again |-> <<>>]
NoGesture == [op |-> "", id |-> 0 - 1, newStart |-> 0, newEnd |-> 0,
              wrote |-> FALSE, target |-> 0 - 1, refreshed |-> FALSE]

MaxLeaves == 2
Leaves == 1 .. MaxLeaves

NoView == [attached |-> TRUE, type |-> "empty", file |-> "", choice |-> "",
           everMarkdown |-> FALSE]

LeafIdle ==
    /\ calendarFileModes = [l \in Leaves |-> ""]
    /\ loaded = FALSE
    /\ leaves = [l \in Leaves |-> NoView]

ViewIdle ==
    /\ settings = [recognizedDateFormat |-> "tasks",
                   datePriority |-> DEFAULT_DATE_PRIORITY]
    /\ file = <<>>
    /\ data = <<>>
    /\ currentEvents = <<>>
    /\ events = <<>>
    /\ last = NoGesture

\* ----------------------------------------------------- the parser, called
\* one call per behaviour: Init draws the line, an action applies a function
InitParse ==
    /\ line \in InputLines
    /\ call = NoCall
    /\ ret = NoRet
    /\ ViewIdle
    /\ LeafIdle

CallExtractAllDates ==
    \E f \in Filters :
        /\ call = NoCall
        /\ call' = [NoCall EXCEPT !.fn = "extractAllDates", !.formatFilter = f]
        /\ ret' = [NoRet EXCEPT !.fields = extractAllDates(line, f)]
        /\ UNCHANGED <<line, viewVars, leafVars>>

CallGetPrimaryDate ==
    \E f \in {"", "tasks", "dataview"}, p \in PriorityOrders :
        /\ call = NoCall
        /\ call' = [NoCall EXCEPT !.fn = "getPrimaryDate", !.formatFilter = f,
                                  !.priorityOrder = p]
        /\ ret' = [NoRet EXCEPT !.field = getPrimaryDate(line, p, f)]
        /\ UNCHANGED <<line, viewVars, leafVars>>

CallStripDates ==
    /\ call = NoCall
    /\ call' = [NoCall EXCEPT !.fn = "stripDates"]
    /\ ret' = [NoRet EXCEPT !.text = stripDates(line)]
    /\ UNCHANGED <<line, viewVars, leafVars>>

\* extractAllDates(line)[index], formatted by formatDate and extracted again
CallRoundTrip ==
    \E i \in 1..Len(extractAllDates(line, "")) :
        call = NoCall /\
        LET f == extractAllDates(line, "")[i]
            text == formatDate(f.type, f.date, f.format, f.hasTime)
        IN /\ call' = [NoCall EXCEPT !.fn = "roundTrip", !.index = i]
           /\ ret' = [NoRet EXCEPT !.field = f, !.text = text,
                                   !.fields = extractAllDates(text, "")]
           /\ UNCHANGED <<line, viewVars, leafVars>>

\* the rewrite pipeline applied to the line, and to its own result
CallRewrite ==
    /\ call = NoCall
    /\ call' = [NoCall EXCEPT !.fn = "rewrite"]
    /\ ret' = [NoRet EXCEPT !.text = Rewrite(line, ""),
                            !.again = Rewrite(Rewrite(line, ""), "")]
    /\ UNCHANGED <<line, viewVars, leafVars>>

NextParse ==
    \/ CallExtractAllDates
    \/ CallGetPrimaryDate
    \/ CallStripDates
    \/ CallRoundTrip
    \/ CallRewrite

SpecParse == InitParse /\ [][NextParse]_vars

\* --------------------------------------------------- formatDate, called
FormatTypes == DateFieldType
FormatNames == {"tasks", "dataview-bracket", "dataview-paren", "simple", "kanban"}
FormatMoments ==
    {MomentOfDate(DA), MomentOfDate(DA) + 9 * 60 + 30, MomentOfDate(DB) + 5,
     MomentOfDate(DB) + 23 * 60, MomentOfDate(DateTok(12, 9)) + 12 * 60}

InitFormat ==
    /\ line = <<>>
    /\ call = NoCall
    /\ ret = NoRet
    /\ ViewIdle
    /\ LeafIdle

CallFormatDate ==
    \E t \in FormatTypes, d \in FormatMoments, f \in FormatNames, it \in BOOLEAN :
        /\ call = NoCall
        /\ call' = [NoCall EXCEPT !.fn = "formatDate", !.type = t, !.date = d,
                                  !.format = f, !.includeTime = it]
        /\ ret' = [NoRet EXCEPT !.text = formatDate(t, d, f, it)]
        /\ UNCHANGED <<line, viewVars, leafVars>>

NextFormat == CallFormatDate

SpecFormat == InitFormat /\ [][NextFormat]_vars

\* ------------------------------------------------------------- the view
\* the segments the task lines of the calendar file are built from
ViewSegs ==
    << <<Ch("U+1F4C5"), SP, DA>>,
       <<Ch("U+1F4C5"), SP, DB, SP, TimeTok("1", 9, 30)>>,
       <<Ch("U+1F6EB"), SP, DA>>,
       <<Ch("U+1F6EB"), SP, DA, SP, TimeTok("2", 14, 30)>>,
       <<Ch("U+23F3"), SP, DB, SP, TimeTok("2", 16, 0)>>,
       <<Ch("U+2795"), SP, DA>>,
       <<Ch("["), Ch("due"), Ch("::"), SP, DB, Ch("]")>>,
       <<Ch("("), Ch("start"), Ch("::"), SP, DA, Ch("T"), TimeTok("2", 9, 30), Ch(")")>>,
       <<Ch("@"), SP, DA>>,
       <<Ch("@"), Ch("{"), DA, Ch("}")>>,
       <<Ch("@"), Ch("@"), Ch("{"), TimeTok("2", 9, 30), Ch("}")>> >>

\* how many segments follow the title of a task line at most
MaxViewSegs == 2

RECURSIVE TaskLinesUpTo(_)
TaskLinesUpTo(n) ==
    IF n = 0 THEN {<<Ch("-"), SP, Ch("["), SP, Ch("]"), SP, Ch("Task")>>}
    ELSE LET shorter == TaskLinesUpTo(n - 1)
         IN shorter \cup {l \o <<SP>> \o ViewSegs[k] :
                            l \in shorter, k \in 1..Len(ViewSegs)}

TaskLines == TaskLinesUpTo(MaxViewSegs)

\* a line of the file that is no task
NoteLine == <<Ch("notes")>>

RecognizedFormats == {"tasks", "dataview", "simple", "kanban"}

ViewPriorities ==
    {DEFAULT_DATE_PRIORITY, <<Scheduled, Created, Start, Due, Done, Cancelled>>}

\* where a drag can drop an event: 2025-02-01 and 2025-02-04, at the all-day
\* default times 00:00 and 12:00 or at 10:15
DropStarts ==
    {MomentOfDate(DateTok(2, 1)), MomentOfDate(DateTok(2, 1)) + 10 * 60 + 15,
     MomentOfDate(DateTok(2, 4)) + 12 * 60}

\* the reported end: the exclusive end of an all-day drop, or 45 minutes later
DropEnds(newStart) ==
    {(DayOf(newStart) + 1) * MinutesPerDay, newStart + 45}

\* the state after setViewData: the file is loaded, parsed and shown
Init ==
    /\ line = <<>>
    /\ call = NoCall
    /\ ret = NoRet
    /\ settings \in [recognizedDateFormat : RecognizedFormats,
                     datePriority : ViewPriorities]
    /\ \E l \in TaskLines : file = <<NoteLine, l>>
    /\ data = file
    /\ currentEvents = parseMarkdown(file, settings)
    /\ events = updateCalendarEvents(currentEvents)
    /\ last = NoGesture
    /\ LeafIdle

\* the user drags event i to newStart..newEnd; one gesture per behaviour
HandleEventDrop ==
    \E i \in 1..Len(currentEvents), newStart \in DropStarts :
      \E newEnd \in DropEnds(newStart), task \in {currentEvents[i]} :
        \E r \in {handleEventDrop(task, newStart, newEnd, data)} :
           /\ last = NoGesture
           /\ last' = [op |-> "drop", id |-> task.id, newStart |-> newStart,
                       newEnd |-> newEnd, wrote |-> r[1], target |-> r[2],
                       refreshed |-> ~r[1]]
           /\ IF r[1]
              THEN /\ file' = [data EXCEPT ![r[2] + 1] = r[3]]
                   /\ UNCHANGED <<data, currentEvents, events>>
              ELSE /\ data' = file
                   /\ currentEvents' = parseMarkdown(file, settings)
                   /\ events' = updateCalendarEvents(currentEvents')
                   /\ UNCHANGED file
           /\ UNCHANGED <<parserVars, settings, leafVars>>

\* refresh(), called by the debounced file watcher after a modify
Refresh ==
    /\ last.op # ""
    /\ ~last.refreshed
    /\ data' = file
    /\ currentEvents' = parseMarkdown(file, settings)
    /\ events' = updateCalendarEvents(currentEvents')
    /\ last' = [last EXCEPT !.refreshed = TRUE]
    /\ UNCHANGED <<parserVars, settings, file, leafVars>>

Next ==
    \/ HandleEventDrop
    \/ Refresh

Spec == Init /\ [][Next]_vars

\* ------------------------------------------------------ the view, resizing
\* the segments the task lines of the resized file are built from
ResizeSegs ==
    << <<Ch("U+1F4C5"), SP, DA>>,
       <<Ch("U+1F6EB"), SP, DA, SP, TimeTok("2", 14, 30)>>,
       <<Ch("U+23F3"), SP, DB>>,
       <<Ch("["), Ch("due"), Ch("::"), SP, DB, Ch("]")>>,
       <<Ch("@"), SP, DA>>,
       <<Ch("@"), Ch("{"), DA, Ch("}")>> >>

\* how many segments follow the title of a resized task line at most
MaxResizeSegs == 2

RECURSIVE ResizeLinesUpTo(_)
ResizeLinesUpTo(n) ==
    IF n = 0 THEN {<<Ch("-"), SP, Ch("["), SP, Ch("]"), SP, Ch("Task")>>}
    ELSE LET shorter == ResizeLinesUpTo(n - 1)
         IN shorter \cup {l \o <<SP>> \o ResizeSegs[k] :
                            l \in shorter, k \in 1..Len(ResizeSegs)}

\* where a resize can end: the exclusive end of an all-day range of one or of
\* three days, 45 minutes after the start, or 10:00 two days later
ResizeEnds(newStart) ==
    {(DayOf(newStart) + 1) * MinutesPerDay, (DayOf(newStart) + 3) * MinutesPerDay,
     newStart + 45, (DayOf(newStart) + 2) * MinutesPerDay + 10 * 60}

InitResize ==
    /\ line = <<>>
    /\ call = NoCall
    /\ ret = NoRet
    /\ settings \in [recognizedDateFormat : RecognizedFormats,
                     datePriority : {DEFAULT_DATE_PRIORITY}]
    /\ \E l \in ResizeLinesUpTo(MaxResizeSegs) : file = <<NoteLine, l>>
    /\ data = file
    /\ currentEvents = parseMarkdown(file, settings)
    /\ events = updateCalendarEvents(currentEvents)
    /\ last = NoGesture
    /\ LeafIdle

\* the user drags the end of event i so that it covers newStart..newEnd
HandleEventResize ==
    \E i \in 1..Len(currentEvents), newStart \in DropStarts :
      \E newEnd \in ResizeEnds(newStart), task \in {currentEvents[i]} :
        \E r \in {handleEventResize(task, newStart, newEnd, data)} :
           /\ last = NoGesture
           /\ last' = [op |-> "resize", id |-> task.id, newStart |-> newStart,
                       newEnd |-> newEnd, wrote |-> r[1], target |-> task.lineIndex,
                       refreshed |-> ~r[1]]
           /\ IF r[1]
              THEN /\ file' = [data EXCEPT ![task.lineIndex + 1] = r[3]]
                   /\ UNCHANGED <<data, currentEvents, events>>
              ELSE IF r[2]
              THEN /\ data' = file
                   /\ currentEvents' = parseMarkdown(file, settings)
                   /\ events' = updateCalendarEvents(currentEvents')
                   /\ UNCHANGED file
              ELSE UNCHANGED <<file, data, currentEvents, events>>
           /\ UNCHANGED <<parserVars, settings, leafVars>>

NextResize ==
    \/ HandleEventResize
    \/ Refresh

SpecResize == InitResize /\ [][NextResize]_vars

\* -------------------------------------------------------- ColorService
\* A ColorTheme; NoTheme stands for an absent (undefined) theme
Theme(name) == [light |-> name \o "-light", dark |-> name \o "-dark"]
NoTheme == [light |-> "", dark |-> ""]

\* ColorConditionType
IsOverdue == "is_overdue"
IsCompleted == "is_completed"
HasTag == "has_tag"
TitleContains == "title_contains"
SectionIs == "section_is"
HasDue == "has_due"
Always == "always"

\* String.prototype.toLowerCase on the strings of the model
ToLowerCase(str) ==
    CASE str = "A" -> "a"
      [] str = "#A" -> "#a"
      [] str = "Work" -> "work"
      [] OTHER -> str

\* A text is the set of the probe strings that occur in it; text.includes(p)
TextIncludes(text, p) == p \in text
TextToLowerCase(text) == {ToLowerCase(x) : x \in text}

\* value.startsWith("#")
StartsWithHash(str) == str \in {"#a", "#A"}

\* rule.conditionValue.startsWith("#") ? rule.conditionValue : `#${...}`
TagPattern(conditionValue) ==
    IF StartsWithHash(conditionValue) THEN conditionValue
    ELSE "#" \o conditionValue

\* ColorService.checkCondition; today is the day moment() falls on
checkCondition(task, rule, sections, today) ==
    CASE rule.conditionType = IsOverdue ->
           IF task.completed THEN FALSE ELSE DayOf(task.date) < today
      [] rule.conditionType = IsCompleted -> task.completed
      [] rule.conditionType = HasTag ->
           IF rule.conditionValue = "" THEN FALSE
           ELSE \/ TextIncludes(task.title, TagPattern(rule.conditionValue))
                \/ TextIncludes(task.markdown, TagPattern(rule.conditionValue))
      [] rule.conditionType = TitleContains ->
           IF rule.conditionValue = "" THEN FALSE
           ELSE TextIncludes(TextToLowerCase(task.title),
                             ToLowerCase(rule.conditionValue))
      [] rule.conditionType = SectionIs ->
           IF rule.conditionValue = "" THEN FALSE
           ELSE IF task.sectionId \notin DOMAIN sections THEN FALSE
           ELSE ToLowerCase(sections[task.sectionId].name)
                  = ToLowerCase(rule.conditionValue)
      [] rule.conditionType = HasDue ->
           \E i \in 1..Len(task.allDates) : task.allDates[i].type = Due
      [] rule.conditionType = Always -> TRUE
      [] OTHER -> FALSE

\* ColorService.resolveColor
resolveColor(theme, isDarkMode) == IF isDarkMode THEN theme.dark ELSE theme.light

\* faulty variant: a disabled rule is tried like an enabled one
RuleApplies_Disabled(rule, filePath) ==
    \/ ~rule.hasApplyToFiles
    \/ Len(rule.applyToFiles) = 0
    \/ \E k \in 1..Len(rule.applyToFiles) : rule.applyToFiles[k] = filePath

\* the two "continue" tests of the rule loop
RuleApplies(rule, filePath) ==
    /\ rule.enabled
    /\ \/ ~(rule.hasApplyToFiles /\ Len(rule.applyToFiles) > 0)
       \/ \E k \in 1..Len(rule.applyToFiles) : rule.applyToFiles[k] = filePath

\* for (const rule of colorRules): the theme of the first match, NoTheme if none
RECURSIVE RuleLoop(_, _, _, _, _)
RuleLoop(colorRules, task, filePath, sections, today) ==
    IF colorRules = <<>> THEN NoTheme
    ELSE IF /\ RuleApplies(Head(colorRules), filePath)
            /\ checkCondition(task, Head(colorRules), sections, today)
    THEN Head(colorRules).color
    ELSE RuleLoop(Tail(colorRules), task, filePath, sections, today)

\* priorities 2 to 4 of getEventColor; an absent sourceConfig, color or section
\* entry is NoTheme
FallbackTheme(task, sourceConfig, defaultEventColor, isAllSectionsView) ==
    IF isAllSectionsView /\ sourceConfig.sectionColors[task.sectionId] # NoTheme
    THEN sourceConfig.sectionColors[task.sectionId]
    ELSE IF sourceConfig.color # NoTheme THEN sourceConfig.color
    ELSE defaultEventColor

\* getEventColor once the rule loop has run
ColorAfterRules(matched, task, sourceConfig, defaultEventColor, isDarkMode, isAllSectionsView) ==
    IF matched # NoTheme THEN resolveColor(matched, isDarkMode)
    ELSE resolveColor(FallbackTheme(task, sourceConfig, defaultEventColor,
                                    isAllSectionsView),
                      isDarkMode)

\* ColorService.getEventColor
getEventColor(task, filePath, sections, colors, isDarkMode, isAllSectionsView, today) ==
    ColorAfterRules(RuleLoop(colors.colorRules, task, filePath, sections, today),
                    task, colors.calendarSources[filePath],
                    colors.defaultEventColor, isDarkMode, isAllSectionsView)

\* ------------------------------------------------ ColorService, called
Rule(enabled, type, value, name, hasFiles, files) ==
    [enabled |-> enabled, conditionType |-> type, conditionValue |-> value,
     color |-> Theme(name), hasApplyToFiles |-> hasFiles, applyToFiles |-> files]

\* the rules colorRules is built from
RulePool ==
    << Rule(FALSE, Always, "", "r1", FALSE, <<>>),
       Rule(TRUE, Always, "", "r2", TRUE, <<"other.md">>),
       Rule(TRUE, IsCompleted, "", "r3", TRUE, <<>>),
       Rule(TRUE, HasDue, "", "r4", TRUE, <<"other.md", "cal.md">>),
       Rule(TRUE, IsOverdue, "", "r5", FALSE, <<>>),
       Rule(TRUE, HasTag, "a", "r6", FALSE, <<>>),
       Rule(TRUE, TitleContains, "A", "r7", FALSE, <<>>),
       Rule(TRUE, SectionIs, "work", "r8", FALSE, <<>>),
       Rule(TRUE, HasTag, "", "r9", FALSE, <<>>),
       Rule(TRUE, "unknown", "", "r10", FALSE, <<>>) >>

\* how many rules colorRules holds at most
MaxRules == 2

RECURSIVE RuleListsUpTo(_)
RuleListsUpTo(n) ==
    IF n = 0 THEN {<<>>}
    ELSE LET shorter == RuleListsUpTo(n - 1)
         IN shorter \cup {Append(l, RulePool[k]) : l \in shorter, k \in 1..Len(RulePool)}

\* the day moment() falls on: 2025-02-01
Today == DayOf(MomentOfDate(DateTok(2, 1)))

ColorTask(title, date, completed, sectionId, types) ==
    [title |-> title, markdown |-> title, date |-> MomentOfDate(date),
     completed |-> completed, sectionId |-> sectionId,
     allDates |-> [i \in 1..Len(types) |->
                     Field(types[i], MomentOfDate(date), <<>>, 0, 0, "tasks", FALSE)]]

\* the tasks colors are asked for: DA is before today, DB after
ColorTasks ==
    { ColorTask({}, DB, FALSE, "default", <<Scheduled>>),
      ColorTask({}, DA, FALSE, "s1", <<Scheduled>>),
      ColorTask({}, DB, TRUE, "s1", <<Start>>),
      ColorTask({}, DA, TRUE, "default", <<Start, Due>>),
      ColorTask({"a", "#a"}, DB, FALSE, "s2", <<Created>>),
      ColorTask({"A"}, DB, FALSE, "gone", <<Created>>) }

\* the sections of the file (id -> section)
ColorSections ==
    [id \in {"default", "s1", "s2"} |->
       [id |-> id, name |-> IF id = "s1" THEN "Work" ELSE id]]

SectionIds == {"default", "s1", "s2", "gone"}

\* calendarSources[filePath]: absent, a base color, a color for section s1, both
SourceConfigs ==
    { [color |-> c, sectionColors |-> [id \in SectionIds |-> IF id = "s1" THEN sc ELSE NoTheme]] :
        c \in {NoTheme, Theme("file")}, sc \in {NoTheme, Theme("section")} }

InitColor ==
    /\ line = <<>>
    /\ call = NoCall
    /\ ret = NoRet
    /\ ViewIdle
    /\ LeafIdle

CallGetEventColor ==
    \E task \in ColorTasks, rules \in RuleListsUpTo(MaxRules),
       sourceConfig \in SourceConfigs, isDarkMode \in BOOLEAN,
       isAllSectionsView \in BOOLEAN :
        /\ call = NoCall
        /\ call' = [fn |-> "getEventColor", task |-> task, filePath |-> "cal.md",
                    colorRules |-> rules, sourceConfig |-> sourceConfig,
                    isDarkMode |-> isDarkMode,
                    isAllSectionsView |-> isAllSectionsView]
        /\ ret' = [color |->
                     getEventColor(task, "cal.md", ColorSections,
                                   [defaultEventColor |-> Theme("default"),
                                    colorRules |-> rules,
                                    calendarSources |->
                                      [f \in {"cal.md"} |-> sourceConfig]],
                                   isDarkMode, isAllSectionsView, Today)]
        /\ UNCHANGED <<line, viewVars, leafVars>>

NextColor == CallGetEventColor

SpecColor == InitColor /\ [][NextColor]_vars

\* ------------------------------------------------- the view, edits in a row
\* updatedLine.replace(/^(\s*-\s*\[).\]/, `$1${newMark}]`)
SetCheckMark(taskLine, newMark) ==
    IF TaskPrefix(taskLine)[1]
    THEN Slice(taskLine, 0, SkipWs(taskLine, SkipWs(taskLine, 0) + 1) + 1) \o <<newMark>>
           \o Slice(taskLine, SkipWs(taskLine, SkipWs(taskLine, 0) + 1) + 2, Len(taskLine))
    ELSE taskLine

\* replace(/\s*U+2705️?\s*\d{4}-\d{2}-\d{2}(?:\s+\d{1,2}:\d{2})?/g, "")
RECURSIVE RemoveDoneEmoji(_, _)
RemoveDoneEmoji(taskLine, from) ==
    IF from >= Len(taskLine) THEN <<>>
    ELSE IF EmojiMatchAt(taskLine, Done, SkipWs(taskLine, from))[1]
    THEN RemoveDoneEmoji(taskLine, EmojiMatchAt(taskLine, Done, SkipWs(taskLine, from))[2])
    ELSE <<taskLine[from + 1]>> \o RemoveDoneEmoji(taskLine, from + 1)

\* the keys of the done pattern, matched case-insensitively
DoneKeys ==
    {<<"done">>, <<"completed">>, <<"completion">>, <<"done", " ", "date">>,
     <<"completion", " ", "date">>}

\* one attempt of /[\[(](?:keys)::\s*date(?:T time)?[\])]/ at offset i, the
\* key being k tokens long: the offset after the match, -1 if none
DoneFieldEnd(taskLine, i, k) ==
    LET v == SkipWs(taskLine, i + k + 2)
        e == IF At(taskLine, v + 1) = Ch("T") /\ IsTimeShape(At(taskLine, v + 2))
             THEN v + 3 ELSE v + 1
    IN IF /\ At(taskLine, i) \in {Ch("["), Ch("(")}
          /\ i + k + 1 < Len(taskLine)
          /\ KeyNames(Slice(taskLine, i + 1, i + 1 + k)) \in DoneKeys
          /\ At(taskLine, i + 1 + k) = Ch("::")
          /\ IsDateShape(At(taskLine, v))
          /\ At(taskLine, e) \in {Ch("]"), Ch(")")}
       THEN e + 1
       ELSE 0 - 1

DoneFieldAt(taskLine, i) ==
    IF DoneFieldEnd(taskLine, i, 1) >= 0 THEN DoneFieldEnd(taskLine, i, 1)
    ELSE DoneFieldEnd(taskLine, i, 3)

\* replace(/\s*[\[(](?:done|completed|...)::\s*date(?:T time)?[\])]/gi, "")
RECURSIVE RemoveDoneDataview(_, _)
RemoveDoneDataview(taskLine, from) ==
    IF from >= Len(taskLine) THEN <<>>
    ELSE IF DoneFieldAt(taskLine, SkipWs(taskLine, from)) >= 0
    THEN RemoveDoneDataview(taskLine, DoneFieldAt(taskLine, SkipWs(taskLine, from)))
    ELSE <<taskLine[from + 1]>> \o RemoveDoneDataview(taskLine, from + 1)

\* moment() at the time of the edits
Now == Today * MinutesPerDay + 9 * 60 + 20

\* the completion-date step of toggleTaskCompletion on the re-marked taskLine
ToggleDone(updatedLine, isCompleting, dateFormat) ==
    IF dateFormat \notin {"tasks", "dataview"} THEN updatedLine
    ELSE IF isCompleting
    THEN TrimEnd(updatedLine) \o <<SP>>
           \o formatDate(Done, Now,
                         IF dateFormat = "tasks" THEN "tasks"
                         ELSE "dataview-bracket", FALSE)
    ELSE IF dateFormat = "tasks" THEN RemoveDoneEmoji(updatedLine, 0)
    ELSE RemoveDoneDataview(updatedLine, 0)

\* toggleTaskCompletion: the content handed to vault.modify
toggleTaskCompletion(task, lines, dateFormat) ==
    [lines EXCEPT ![task.lineIndex + 1] =
       ToggleDone(SetCheckMark(lines[task.lineIndex + 1],
                               IF task.completed THEN SP ELSE Ch("x")),
                  ~task.completed, dateFormat)]

\* lines.splice(index, 1)
Splice(lines, index) ==
    SubSeq(lines, 1, index) \o SubSeq(lines, index + 2, Len(lines))

\* deleteTask: <<wrote, the content handed to vault.modify>>
deleteTask(task, lines) ==
    IF lines[task.lineIndex + 1] = task.markdown
    THEN <<TRUE, Splice(lines, task.lineIndex)>>
    ELSE <<FALSE, lines>>

\* the two task lines of the edited file; one choice is a nested task
EditLinesA ==
    {<<Ch("-"), SP, Ch("["), SP, Ch("]"), SP, Ch("Task"), SP,
       Ch("U+1F4C5"), SP, DA>>,
     <<TAB, Ch("-"), SP, Ch("["), SP, Ch("]"), SP, Ch("Task"), SP,
       Ch("U+1F6EB"), SP, DA, SP, Ch("U+1F4C5"), SP, DB>>,
     <<Ch("-"), SP, Ch("["), Ch("x"), Ch("]"), SP, Ch("Task"), SP,
       Ch("U+1F4C5"), SP, DA, SP, Ch("U+2705"), SP, DB>>,
     <<Ch("-"), SP, Ch("["), SP, Ch("]"), SP, Ch("Task"), SP,
       Ch("["), Ch("due"), Ch("::"), SP, DB, Ch("]")>>}

EditLinesB ==
    {<<Ch("-"), SP, Ch("["), SP, Ch("]"), SP, Ch("Other"), SP,
       Ch("U+1F6EB"), SP, DA, SP, TimeTok("2", 14, 30)>>,
     <<Ch("-"), SP, Ch("["), Ch("x"), Ch("]"), SP, Ch("Other"), SP,
       Ch("["), Ch("due"), Ch("::"), SP, DB, Ch("]"), SP,
       Ch("["), Ch("done"), Ch("::"), SP, DA, Ch("]")>>,
     <<Ch("-"), SP, Ch("["), SP, Ch("]"), SP, Ch("Other"), SP,
       Ch("@"), Ch("{"), DA, Ch("}")>>}

\* how many edits the user makes in a behaviour
MaxEdits == 2

\* where the edits drop or resize an event: 2025-02-01 10:15
EditStarts == {MomentOfDate(DateTok(2, 1)) + 10 * 60 + 15}

NoWrite == [op |-> "", target |-> 0 - 1, old |-> <<>>, new |-> <<>>]

\* the gesture record after an edit: writes counts the writes that no refresh
\* has followed yet, first is the earliest of them
Edited(op, task, wrote, target, old, new) ==
    [op |-> op, id |-> task.id, wrote |-> wrote, target |-> target,
     refreshed |-> ~wrote, edits |-> last.edits + 1,
     writes |-> IF wrote THEN last.writes + 1 ELSE 0,
     first |-> IF ~wrote THEN NoWrite
               ELSE IF last.writes = 0
               THEN [op |-> op, target |-> target, old |-> old, new |-> new]
               ELSE last.first]

InitEdits ==
    /\ line = <<>>
    /\ call = NoCall
    /\ ret = NoRet
    /\ settings \in [recognizedDateFormat : {"tasks", "dataview", "kanban"},
                     datePriority : {DEFAULT_DATE_PRIORITY}]
    /\ \E a \in EditLinesA, b \in EditLinesB : file = <<a, b>>
    /\ data = file
    /\ currentEvents = parseMarkdown(file, settings)
    /\ events = updateCalendarEvents(currentEvents)
    /\ last = [op |-> "", id |-> 0 - 1, wrote |-> FALSE, target |-> 0 - 1,
               refreshed |-> TRUE, edits |-> 0, writes |-> 0,
               first |-> NoWrite]
    /\ LeafIdle

\* what an edit leaves behind: the written content, or a refresh
AfterEdit(wrote, content) ==
    IF wrote
    THEN /\ file' = content
         /\ UNCHANGED <<data, currentEvents, events>>
    ELSE /\ data' = file
         /\ currentEvents' = parseMarkdown(file, settings)
         /\ events' = updateCalendarEvents(currentEvents')
         /\ UNCHANGED file

EditDrop ==
    \E i \in 1..Len(currentEvents), newStart \in EditStarts :
      \E newEnd \in DropEnds(newStart), task \in {currentEvents[i]} :
        \E r \in {handleEventDrop(task, newStart, newEnd, data)} :
           /\ last.edits < MaxEdits
           /\ last' = Edited("drop", task, r[1], r[2],
                             IF r[1] THEN data[r[2] + 1] ELSE <<>>, r[3])
           /\ AfterEdit(r[1], IF r[1] THEN [data EXCEPT ![r[2] + 1] = r[3]]
                              ELSE data)
           /\ UNCHANGED <<parserVars, settings, leafVars>>

EditResize ==
    \E i \in 1..Len(currentEvents), newStart \in EditStarts :
      \E newEnd \in ResizeEnds(newStart), task \in {currentEvents[i]} :
        \E r \in {handleEventResize(task, newStart, newEnd, data)} :
           /\ last.edits < MaxEdits
           /\ r[1] \/ r[2]
           /\ last' = Edited("resize", task, r[1], task.lineIndex,
                             data[task.lineIndex + 1], r[3])
           /\ AfterEdit(r[1], IF r[1]
                              THEN [data EXCEPT ![task.lineIndex + 1] = r[3]]
                              ELSE data)
           /\ UNCHANGED <<parserVars, settings, leafVars>>

\* the checkbox of event i is clicked
EditToggle ==
    \E i \in 1..Len(currentEvents) :
      \E task \in {currentEvents[i]} :
        \E r \in {toggleTaskCompletion(task, data,
                                       settings.recognizedDateFormat)} :
           /\ last.edits < MaxEdits
           /\ last' = Edited("toggle", task, TRUE, task.lineIndex,
                             data[task.lineIndex + 1], r[task.lineIndex + 1])
           /\ AfterEdit(TRUE, r)
           /\ UNCHANGED <<parserVars, settings, leafVars>>

\* event i is deleted from its context menu
EditDelete ==
    \E i \in 1..Len(currentEvents) :
      \E task \in {currentEvents[i]} :
        \E r \in {deleteTask(task, data)} :
           /\ last.edits < MaxEdits
           /\ last' = Edited("delete", task, r[1], task.lineIndex,
                             data[task.lineIndex + 1], <<>>)
           /\ AfterEdit(r[1], r[2])
           /\ UNCHANGED <<parserVars, settings, leafVars>>

\* refresh(), called by the debounced file watcher after the writes
RefreshEdits ==
    /\ last.writes > 0
    /\ data' = file
    /\ currentEvents' = parseMarkdown(file, settings)
    /\ events' = updateCalendarEvents(currentEvents')
    /\ last' = [last EXCEPT !.refreshed = TRUE, !.writes = 0,
                            !.first = NoWrite]
    /\ UNCHANGED <<parserVars, settings, file, leafVars>>

NextEdits ==
    \/ EditDrop
    \/ EditResize
    \/ EditToggle
    \/ EditDelete
    \/ RefreshEdits

SpecEdits == InitEdits /\ [][NextEdits]_vars

\* ------------------------------------------- the view, a Kanban task dragged
\* the task line of the Kanban board file
KanbanLines ==
    {<<Ch("-"), SP, Ch("["), SP, Ch("]"), SP, Ch("Task"), SP,
       Ch("@"), Ch("{"), DA, Ch("}")>>,
     <<Ch("-"), SP, Ch("["), SP, Ch("]"), SP, Ch("Task"), SP,
       Ch("@"), Ch("{"), DA, Ch("}"), SP,
       Ch("@"), Ch("@"), Ch("{"), TimeTok("2", 9, 30), Ch("}")>>,
     <<Ch("-"), SP, Ch("["), Ch("x"), Ch("]"), SP, Ch("Task"), SP,
       Ch("@"), Ch("@"), Ch("{"), TimeTok("1", 9, 30), Ch("}"), SP,
       Ch("@"), Ch("{"), DB, Ch("}")>>}

\* how many times the task is dragged in a behaviour
MaxDrops == 2

\* where the Kanban task is dropped: 2025-02-01 all day or at 10:15, or
\* 2025-02-04 at 16:45
KanbanStarts ==
    {MomentOfDate(DateTok(2, 1)), MomentOfDate(DateTok(2, 1)) + 10 * 60 + 15,
     MomentOfDate(DateTok(2, 4)) + 16 * 60 + 45}

InitKanban ==
    /\ line = <<>>
    /\ call = NoCall
    /\ ret = NoRet
    /\ settings \in [recognizedDateFormat : {"kanban"},
                     datePriority : ViewPriorities]
    /\ \E l \in KanbanLines : file = <<NoteLine, l>>
    /\ data = file
    /\ currentEvents = parseMarkdown(file, settings)
    /\ events = updateCalendarEvents(currentEvents)
    /\ last = [op |-> "", id |-> 0 - 1, newStart |-> 0, newEnd |-> 0,
               wrote |-> FALSE, target |-> 0 - 1, refreshed |-> TRUE,
               drops |-> 0]
    /\ LeafIdle

\* the user drags the task's event; the view has re-parsed the file since the
\* drop before
DropKanban ==
    \E i \in 1..Len(currentEvents), newStart \in KanbanStarts :
      \E newEnd \in DropEnds(newStart), task \in {currentEvents[i]} :
        \E r \in {handleEventDrop(task, newStart, newEnd, data)} :
           /\ last.refreshed
           /\ last.drops < MaxDrops
           /\ last' = [op |-> "drop", id |-> task.id, newStart |-> newStart,
                       newEnd |-> newEnd, wrote |-> r[1], target |-> r[2],
                       refreshed |-> ~r[1], drops |-> last.drops + 1]
           /\ AfterEdit(r[1], IF r[1] THEN [data EXCEPT ![r[2] + 1] = r[3]]
                              ELSE data)
           /\ UNCHANGED <<parserVars, settings, leafVars>>

\* refresh(), called by the debounced file watcher after the drop's write
RefreshKanban ==
    /\ ~last.refreshed
    /\ data' = file
    /\ currentEvents' = parseMarkdown(file, settings)
    /\ events' = updateCalendarEvents(currentEvents')
    /\ last' = [last EXCEPT !.refreshed = TRUE]
    /\ UNCHANGED <<parserVars, settings, file, leafVars>>

NextKanban ==
    \/ DropKanban
    \/ RefreshKanban

SpecKanban == InitKanban /\ [][NextKanban]_vars

\* ------------------------------------------ the view, edits on changed data
\* task.markdown.match(/^(\s*)/)[1]
Indentation(markdown) == Slice(markdown, 0, SkipWs(markdown, 0))

\* index in allDates of allDates.find((d) => d.type === task.dateType), 0 if none
RECURSIVE PrimaryIndex(_, _, _)
PrimaryIndex(allDates, dateType, i) ==
    IF i > Len(allDates) THEN 0
    ELSE IF allDates[i].type = dateType THEN i
    ELSE PrimaryIndex(allDates, dateType, i + 1)

\* the for loop of updateTask over task.allDates from entry i on
RECURSIVE DateMetadata(_, _, _, _)
DateMetadata(allDates, primary, newPrimaryDate, i) ==
    IF i > Len(allDates) THEN <<>>
    ELSE (IF i = primary
          THEN <<SP>> \o formatDate(allDates[i].type, newPrimaryDate,
                                    allDates[i].format, FALSE)
          ELSE <<SP>> \o allDates[i].raw)
         \o DateMetadata(allDates, primary, newPrimaryDate, i + 1)

\* what the popover hands to updateTask; a field that is not set is undefined
Updates(hasTitle, title, hasDate, date, hasCompleted, completed) ==
    [hasTitle |-> hasTitle, title |-> title, hasDate |-> hasDate, date |-> date,
     hasCompleted |-> hasCompleted, completed |-> completed]

\* updateTask, the line it builds
UpdatedLine(task, updates) ==
    Indentation(task.markdown)
      \o <<Ch("-"), SP, Ch("["),
           IF (IF updates.hasCompleted THEN updates.completed ELSE task.completed)
           THEN Ch("x") ELSE SP,
           Ch("]"), SP>>
      \o (IF updates.hasTitle THEN updates.title ELSE task.title)
      \o (IF task.allDates # <<>>
          THEN DateMetadata(task.allDates,
                            PrimaryIndex(task.allDates, task.dateType, 1),
                            IF updates.hasDate THEN updates.date ELSE task.date, 1)
          ELSE <<SP, Ch("U+1F4C5"), SP,
                 FormatYMD(IF updates.hasDate THEN updates.date ELSE task.date)>>)

\* faulty variant: updateTask without the check of the line
updateTask_NoGuard(task, updates, lines) ==
    <<TRUE, [lines EXCEPT ![task.lineIndex + 1] = UpdatedLine(task, updates)]>>

\* updateTask: <<wrote, the content handed to vault.modify>>
updateTask(task, updates, lines) ==
    IF lines[task.lineIndex + 1] # task.markdown THEN <<FALSE, lines>>
    ELSE <<TRUE, [lines EXCEPT ![task.lineIndex + 1] = UpdatedLine(task, updates)]>>

\* lines.findIndex((l) => l.trim() === targetHeader), -1 if none
RECURSIVE HeaderIndex(_, _, _)
HeaderIndex(lines, targetHeader, index) ==
    IF index >= Len(lines) THEN 0 - 1
    ELSE IF Trim(lines[index + 1]) = targetHeader THEN index
    ELSE HeaderIndex(lines, targetHeader, index + 1)

\* moveTaskToCompletedSection: where taskLine goes once it is spliced out
InsertCompleted(lines, targetHeader, headerIndex, taskLine) ==
    IF headerIndex # 0 - 1
    THEN SubSeq(lines, 1, headerIndex + 1) \o <<taskLine>>
           \o SubSeq(lines, headerIndex + 2, Len(lines))
    ELSE lines
           \o (IF lines # <<>> /\ Trim(lines[Len(lines)]) # <<>>
               THEN <<<<>>>> ELSE <<>>)
           \o <<targetHeader, taskLine>>

\* moveTaskToCompletedSection, the line it moves: marked x, with the Done date
CompletedLine(taskLine, dateFormat) ==
    IF dateFormat \in {"tasks", "dataview"}
    THEN TrimEnd(SetCheckMark(taskLine, Ch("x"))) \o <<SP>>
           \o formatDate(Done, Now,
                         IF dateFormat = "tasks" THEN "tasks"
                         ELSE "dataview-bracket", FALSE)
    ELSE SetCheckMark(taskLine, Ch("x"))

\* moveTaskToCompletedSection with a section name configured:
\* <<wrote, the content handed to vault.modify>>
moveTaskToCompletedSection(task, lines, dateFormat, targetHeader) ==
    IF lines[task.lineIndex + 1] # task.markdown THEN <<FALSE, lines>>
    ELSE <<TRUE,
           InsertCompleted(Splice(lines, task.lineIndex), targetHeader,
                           HeaderIndex(Splice(lines, task.lineIndex),
                                       targetHeader, 0),
                           CompletedLine(lines[task.lineIndex + 1], dateFormat))>>

\* the task lines of the file whose data changes under the view
StaleLines ==
    {<<Ch("-"), SP, Ch("["), SP, Ch("]"), SP, Ch("Task"), SP,
       Ch("U+1F4C5"), SP, DB, SP, TimeTok("2", 9, 30)>>,
     <<Ch("-"), SP, Ch("["), SP, Ch("]"), SP, Ch("Task"), SP, Ch("two"), SP,
       Ch("U+1F4C5"), SP, DB>>,
     <<TAB, Ch("-"), SP, Ch("["), Ch("x"), Ch("]"), SP, Ch("Task"), SP,
       Ch("U+1F6EB"), SP, DA, SP, TimeTok("2", 14, 30), SP,
       Ch("U+1F4C5"), SP, DB>>,
     <<Ch("-"), SP, Ch("["), SP, Ch("]"), SP, Ch("Task"), SP,
       Ch("@"), Ch("{"), DB, Ch("}")>>,
     <<Ch("-"), SP, Ch("["), SP, Ch("]"), SP, Ch("Late"), SP,
       Ch("U+1F6EB"), SP, DB, SP, Ch("U+1F4C5"), SP, DA>>}

\* `## ${completedSectionName}`
TargetHeader(completedSectionName) == <<Ch("##"), SP, Ch(completedSectionName)>>

\* the new title typed into the popover
NewTitle == <<Ch("Renamed")>>

\* the record of the handler call of a behaviour: the task it got, whether
\* the data had that task's markdown at its lineIndex, the file before the call
Handled(op, task, wrote, refreshes) ==
    [op |-> op, task |-> <<task>>, wrote |-> wrote, refreshed |-> refreshes,
     stale |-> data[task.lineIndex + 1] # task.markdown, before |-> file,
     changed |-> last.changed]

InitStale ==
    /\ line = <<>>
    /\ call = NoCall
    /\ ret = NoRet
    /\ settings \in [recognizedDateFormat : {"tasks", "kanban"},
                     datePriority : {DEFAULT_DATE_PRIORITY},
                     completedSectionName : {"Done"}]
    /\ \E a \in StaleLines, b \in StaleLines : a # b /\ file = <<a, b>>
    /\ data = file
    /\ currentEvents = parseMarkdown(file, settings)
    /\ events = updateCalendarEvents(currentEvents)
    /\ last = [op |-> "", task |-> <<>>, wrote |-> FALSE, refreshed |-> FALSE,
               stale |-> FALSE, before |-> <<>>, changed |-> FALSE]
    /\ LeafIdle

\* the file is changed outside the calendar (a line inserted above the tasks,
\* or the first line reworded) and the view holds the new text as its data;
\* its tasks are those of the last parse until refresh runs
DataChanged ==
    /\ last.op = ""
    /\ ~last.changed
    /\ \E content \in {<<NoteLine>> \o file,
                       [file EXCEPT ![1] = file[1] \o <<SP, Ch("!")>>]} :
          /\ file' = content
          /\ data' = content
    /\ last' = [last EXCEPT !.changed = TRUE]
    /\ UNCHANGED <<parserVars, settings, currentEvents, events, leafVars>>

\* the popover saves event i
CallUpdateTask ==
    \E i \in 1..Len(currentEvents) :
      \E task \in {currentEvents[i]}, hasDate \in BOOLEAN,
         title \in {currentEvents[i].title, NewTitle}, completed \in BOOLEAN :
        \E r \in {updateTask(task,
                             Updates(TRUE, title, hasDate,
                                     DayOf(task.date) * MinutesPerDay,
                                     TRUE, completed), data)} :
           /\ last.op = ""
           /\ last' = Handled("updateTask", task, r[1], ~r[1])
           /\ AfterEdit(r[1], r[2])
           /\ UNCHANGED <<parserVars, settings, leafVars>>

CallDeleteTask ==
    \E i \in 1..Len(currentEvents) :
      \E task \in {currentEvents[i]} :
        \E r \in {deleteTask(task, data)} :
           /\ last.op = ""
           /\ last' = Handled("deleteTask", task, r[1], ~r[1])
           /\ AfterEdit(r[1], r[2])
           /\ UNCHANGED <<parserVars, settings, leafVars>>

CallHandleEventResize ==
    \E i \in 1..Len(currentEvents), newStart \in EditStarts :
      \E newEnd \in ResizeEnds(newStart), task \in {currentEvents[i]} :
        \E r \in {handleEventResize(task, newStart, newEnd, data)} :
           /\ last.op = ""
           /\ last' = Handled("handleEventResize", task, r[1], r[2])
           /\ IF r[1] \/ r[2]
              THEN AfterEdit(r[1], IF r[1]
                                   THEN [data EXCEPT ![task.lineIndex + 1] = r[3]]
                                   ELSE data)
              ELSE UNCHANGED <<file, data, currentEvents, events>>
           /\ UNCHANGED <<parserVars, settings, leafVars>>

\* the checkbox of event i is clicked with moveOnComplete on
CallMoveTaskToCompletedSection ==
    \E i \in 1..Len(currentEvents) :
      \E task \in {currentEvents[i]} :
        \E r \in {moveTaskToCompletedSection(
                    task, data, settings.recognizedDateFormat,
                    TargetHeader(settings.completedSectionName))} :
           /\ last.op = ""
           /\ ~task.completed
           /\ last' = Handled("moveTaskToCompletedSection", task, r[1], ~r[1])
           /\ AfterEdit(r[1], r[2])
           /\ UNCHANGED <<parserVars, settings, leafVars>>

\* the checkbox of event i is clicked with moveOnComplete off
CallToggleTaskCompletion ==
    \E i \in 1..Len(currentEvents) :
      \E task \in {currentEvents[i]} :
        \E r \in {toggleTaskCompletion(task, data,
                                       settings.recognizedDateFormat)} :
           /\ last.op = ""
           /\ last' = Handled("toggleTaskCompletion", task, TRUE, FALSE)
           /\ AfterEdit(TRUE, r)
           /\ UNCHANGED <<parserVars, settings, leafVars>>

CallHandleEventDrop ==
    \E i \in 1..Len(currentEvents), newStart \in EditStarts :
      \E newEnd \in DropEnds(newStart), task \in {currentEvents[i]} :
        \E r \in {handleEventDrop(task, newStart, newEnd, data)} :
           /\ last.op = ""
           /\ last' = Handled("handleEventDrop", task, r[1], ~r[1])
           /\ AfterEdit(r[1], IF r[1] THEN [data EXCEPT ![r[2] + 1] = r[3]]
                              ELSE data)
           /\ UNCHANGED <<parserVars, settings, leafVars>>

NextStale ==
    \/ DataChanged
    \/ CallUpdateTask
    \/ CallDeleteTask
    \/ CallHandleEventResize
    \/ CallMoveTaskToCompletedSection
    \/ CallToggleTaskCompletion
    \/ CallHandleEventDrop

SpecStale == InitStale /\ [][NextStale]_vars

\* ------------------------------------------- normalizeAllDayEnd, called
\* the reported range: starts on 2025-02-01 or 2025-02-03, ends from the day
\* before to three days later, at 00:00, 12:00 and other clock times
NormStarts ==
    {MomentOfDate(DateTok(2, 1)), MomentOfDate(DateTok(2, 1)) + 10 * 60 + 15,
     MomentOfDate(DateTok(2, 1)) + 12 * 60, MomentOfDate(DateTok(2, 3))}

NormEnds ==
    {MomentOfDate(DateTok(1, 31)) + 12 * 60, MomentOfDate(DateTok(2, 1)),
     MomentOfDate(DateTok(2, 1)) + 11 * 60, MomentOfDate(DateTok(2, 1)) + 12 * 60,
     MomentOfDate(DateTok(2, 2)), MomentOfDate(DateTok(2, 2)) + 12 * 60,
     MomentOfDate(DateTok(2, 2)) + 12 * 60 + 1, MomentOfDate(DateTok(2, 4)),
     MomentOfDate(DateTok(2, 4)) + 23 * 60 + 59}

\* startField and dueField: undefined, a field without a time, one with a time
NormFields(type) ==
    {Null,
     Field(type, MomentOfDate(DA), <<>>, 0, 3, "tasks", FALSE),
     Field(type, MomentOfDate(DA) + 14 * 60 + 30, <<>>, 0, 5, "tasks", TRUE)}

InitNormalize ==
    /\ line = <<>>
    /\ call = NoCall
    /\ ret = NoRet
    /\ ViewIdle
    /\ LeafIdle

CallNormalizeAllDayEnd ==
    \E newStart \in NormStarts, newEnd \in NormEnds, hasTime \in BOOLEAN,
       startField \in NormFields(Start), dueField \in NormFields(Due) :
        /\ call = NoCall
        /\ call' = [fn |-> "normalizeAllDayEnd", newStart |-> newStart,
                    newEnd |-> newEnd, task |-> [hasTime |-> hasTime],
                    startField |-> startField, dueField |-> dueField]
        /\ ret' = [moment |-> normalizeAllDayEnd(newStart, newEnd,
                                                 [hasTime |-> hasTime],
                                                 startField, dueField)]
        /\ UNCHANGED <<line, viewVars, leafVars>>

NextNormalize == CallNormalizeAllDayEnd

SpecNormalize == InitNormalize /\ [][NextNormalize]_vars

\* ---------------------------------------------- the checkbox, clicked twice
\* the first line of the file whose checkbox is clicked
ToggleLines ==
    {<<Ch("-"), SP, Ch("["), SP, Ch("]"), SP, Ch("Task"), SP,
       Ch("U+1F4C5"), SP, DB>>,
     <<Ch("-"), SP, Ch("["), SP, Ch("]"), SP, Ch("Task"), SP,
       Ch("U+1F4C5"), SP, DB, SP, TimeTok("2", 9, 30)>>,
     <<Ch("-"), SP, Ch("["), SP, Ch("]"), SP, Ch("Task"), SP,
       Ch("U+1F4C5"), SP, DB, SP>>,
     <<Ch("-"), SP, Ch("["), Ch("x"), Ch("]"), SP, Ch("Task"), SP,
       Ch("U+1F4C5"), SP, DA, SP, Ch("U+2705"), SP, DB>>,
     <<Ch("-"), SP, Ch("["), Ch("x"), Ch("]"), SP, Ch("Task"), SP,
       Ch("U+2705"), SP, DA, SP, Ch("U+1F4C5"), SP, DB>>,
     <<TAB, Ch("-"), SP, Ch("["), Ch("/"), Ch("]"), SP, Ch("Task"), SP,
       Ch("U+1F4C5"), SP, DB>>,
     <<Ch("-"), SP, Ch("["), SP, Ch("]"), SP, Ch("Task"), SP,
       Ch("["), Ch("due"), Ch("::"), SP, DB, Ch("]")>>,
     <<Ch("-"), SP, Ch("["), Ch("x"), Ch("]"), SP, Ch("Task"), SP,
       Ch("["), Ch("due"), Ch("::"), SP, DB, Ch("]"), SP,
       Ch("("), Ch("done"), Ch("::"), SP, DA, Ch(")")>>,
     <<Ch("-"), SP, Ch("["), Ch("x"), Ch("]"), SP, Ch("Task"), SP,
       Ch("["), Ch("due"), Ch("::"), SP, DB, Ch("]"), SP,
       Ch("["), Ch("donedate"), Ch("::"), SP, DA, Ch("]")>>,
     <<Ch("-"), SP, Ch("["), SP, Ch("]"), SP, Ch("Task"), SP,
       Ch("@"), SP, DA>>,
     <<Ch("-"), SP, Ch("["), Ch("x"), Ch("]"), SP, Ch("Task"), SP,
       Ch("@"), Ch("{"), DB, Ch("}")>>}

\* the second line of the file
OtherLine ==
    <<Ch("-"), SP, Ch("["), SP, Ch("]"), SP, Ch("Other"), SP,
      Ch("U+1F6EB"), SP, DA>>

\* how many times a checkbox is clicked in a behaviour
MaxToggles == 2

InitToggle ==
    /\ line = <<>>
    /\ call = NoCall
    /\ ret = NoRet
    /\ settings \in [recognizedDateFormat : RecognizedFormats,
                     datePriority : {DEFAULT_DATE_PRIORITY}]
    /\ \E a \in ToggleLines : file = <<a, OtherLine>>
    /\ data = file
    /\ currentEvents = parseMarkdown(file, settings)
    /\ events = updateCalendarEvents(currentEvents)
    /\ last = [op |-> "", clicks |-> <<>>, fresh |-> TRUE]
    /\ LeafIdle

\* handleCheckboxClick with moveOnComplete off: toggleTaskCompletion(task)
\* writes the file; fresh tells whether the task came from a parse of the
\* file as it is now
ClickCheckbox ==
    \E i \in 1..Len(currentEvents) :
      \E task \in {currentEvents[i]} :
        \E r \in {toggleTaskCompletion(task, data,
                                       settings.recognizedDateFormat)} :
           /\ Len(last.clicks) < MaxToggles
           /\ last' = [op |-> "toggleTaskCompletion",
                       clicks |-> Append(last.clicks,
                                    [task |-> task,
                                     before |-> data[task.lineIndex + 1],
                                     after |-> r[task.lineIndex + 1],
                                     fresh |-> last.fresh]),
                       fresh |-> FALSE]
           /\ file' = r
           /\ UNCHANGED <<parserVars, settings, data, currentEvents, events,
                          leafVars>>

\* refresh(), called by the debounced file watcher after a write
RefreshToggle ==
    /\ ~last.fresh
    /\ data' = file
    /\ currentEvents' = parseMarkdown(file, settings)
    /\ events' = updateCalendarEvents(currentEvents')
    /\ last' = [last EXCEPT !.op = "refresh", !.fresh = TRUE]
    /\ UNCHANGED <<parserVars, settings, file, leafVars>>

NextToggle ==
    \/ ClickCheckbox
    \/ RefreshToggle

SpecToggle == InitToggle /\ [][NextToggle]_vars

\* ------------------------------------------------ plugin: leaves and modes
VIEW_TYPE_CALENDAR == "calendar-md-view"

\* the vault: "cal.md" starts with the frontmatter  calendar-plugin: basic,
\* "off.md" with  calendar-plugin: false,  "note.md" has no frontmatter
VaultFiles == {"cal.md", "off.md", "note.md"}

\* metadataCache.getCache(path)?.frontmatter?.[FRONTMATTER_KEY], "" if absent
FrontmatterKey(path) ==
    CASE path = "cal.md" -> "basic"
      [] path = "off.md" -> "false"
      [] OTHER -> ""

\* JavaScript truthiness of a frontmatter value: the parsed boolean false and
\* the absent key are falsy
Truthy(value) == value \notin {"", "false"}

\* hasCalendarFrontmatter(content): the key's text occurs in the frontmatter
hasCalendarFrontmatter(path) == path \in {"cal.md", "off.md"}

\* faulty variant: the interceptor never looks at the recorded mode
setViewState_NoSkip(l, type, path, modes, isLoaded) ==
    IF isLoaded /\ type = "markdown" /\ path # ""
         /\ Truthy(FrontmatterKey(path))
    THEN <<[modes EXCEPT ![l] = VIEW_TYPE_CALENDAR], VIEW_TYPE_CALENDAR>>
    ELSE <<modes, type>>

\* the patched WorkspaceLeaf.setViewState on leaf l:
\* <<calendarFileModes afterwards, the view type handed to the original>>
setViewState(l, type, path, modes, isLoaded) ==
    IF isLoaded /\ type = "markdown" /\ path # ""
    THEN IF modes[l] = "markdown"
         THEN <<modes, type>>
         ELSE IF Truthy(FrontmatterKey(path))
              THEN <<[modes EXCEPT ![l] = VIEW_TYPE_CALENDAR],
                     VIEW_TYPE_CALENDAR>>
              ELSE <<modes, type>>
    ELSE <<modes, type>>

\* CalendarView.setViewData on leaf l once the calendar view got the file:
\* a file without the key sends the leaf back to markdown
setViewData(l, path, modes, isLoaded) ==
    IF hasCalendarFrontmatter(path)
    THEN <<modes, VIEW_TYPE_CALENDAR>>
    ELSE setViewState(l, "markdown", path,
                      [modes EXCEPT ![l] = "markdown"], isLoaded)

\* what the leaf shows after a view-state request: the calendar view loads
\* the file's data at once
Show(l, r, path) ==
    IF r[2] = VIEW_TYPE_CALENDAR
    THEN setViewData(l, path, r[1], TRUE)
    ELSE r

\* all leaves attached and empty, the plugin not yet loaded.  Each leaf also
\* remembers the user's commands on it since the plugin was loaded: choice
\* is the last one ("markdown", VIEW_TYPE_CALENDAR or ""), everMarkdown
\* whether one of them asked for markdown
InitLeaf ==
    /\ ViewIdle
    /\ line = <<>>
    /\ call = NoCall
    /\ ret = NoRet
    /\ LeafIdle

\* Plugin.load: onload has run and _loaded is set
Onload ==
    /\ ~loaded
    /\ loaded' = TRUE
    /\ last' = [op |-> "onload", leaf |-> 0, file |-> "", before |-> "",
                applied |-> ""]
    /\ UNCHANGED <<calendarFileModes, leaves>>
    /\ UNCHANGED <<parserVars, settings, file, data, currentEvents, events>>

Onunload ==
    /\ loaded
    /\ loaded' = FALSE
    /\ calendarFileModes' = [l \in Leaves |-> ""]
    /\ leaves' = [l \in Leaves |->
                    [leaves[l] EXCEPT !.choice = "", !.everMarkdown = FALSE]]
    /\ last' = [op |-> "onunload", leaf |-> 0, file |-> "", before |-> "",
                applied |-> ""]
    /\ UNCHANGED <<parserVars, settings, file, data, currentEvents, events>>

\* the workspace opens a file in leaf l: leaf.openFile asks for the markdown
\* view of it through setViewState
OpenFile ==
    \E l \in Leaves, path \in VaultFiles :
      \E r \in {setViewState(l, "markdown", path, calendarFileModes, loaded)} :
        \E s \in {Show(l, r, path)} :
          /\ leaves[l].attached
          /\ calendarFileModes' = s[1]
          /\ leaves' = [leaves EXCEPT ![l].type = s[2], ![l].file = path]
          /\ last' = [op |-> "setViewState", leaf |-> l, file |-> path,
                      before |-> calendarFileModes[l], applied |-> r[2]]
          /\ UNCHANGED loaded
          /\ UNCHANGED <<parserVars, settings, file, data, currentEvents,
                         events>>

\* "Open as markdown" (command, header button, menus) and the toggle command
\* on a calendar view
OpenAsMarkdown ==
    \E l \in Leaves :
      \E r \in {setViewState(l, "markdown", leaves[l].file,
                             [calendarFileModes EXCEPT ![l] = "markdown"],
                             loaded)} :
          /\ loaded
          /\ leaves[l].attached
          /\ leaves[l].type = VIEW_TYPE_CALENDAR
          /\ calendarFileModes' = r[1]
          /\ leaves' = [leaves EXCEPT ![l].type = r[2],
                                      ![l].choice = "markdown",
                                      ![l].everMarkdown = TRUE]
          /\ last' = [op |-> "openAsMarkdown", leaf |-> l,
                      file |-> leaves[l].file, before |-> "markdown",
                      applied |-> r[2]]
          /\ UNCHANGED loaded
          /\ UNCHANGED <<parserVars, settings, file, data, currentEvents,
                         events>>

\* "Open as calendar" (command, file menu) and the toggle command on a
\* markdown view: setCalendarView, then the calendar view loads the file
OpenAsCalendar ==
    \E l \in Leaves :
      \E r \in {setViewState(l, VIEW_TYPE_CALENDAR, leaves[l].file,
                             [calendarFileModes EXCEPT
                                ![l] = VIEW_TYPE_CALENDAR], loaded)} :
        \E s \in {Show(l, r, leaves[l].file)} :
          /\ loaded
          /\ leaves[l].attached
          /\ leaves[l].type = "markdown"
          /\ calendarFileModes' = s[1]
          /\ leaves' = [leaves EXCEPT ![l].type = s[2],
                                      ![l].choice = VIEW_TYPE_CALENDAR]
          /\ last' = [op |-> "openAsCalendar", leaf |-> l,
                      file |-> leaves[l].file, before |-> VIEW_TYPE_CALENDAR,
                      applied |-> r[2]]
          /\ UNCHANGED loaded
          /\ UNCHANGED <<parserVars, settings, file, data, currentEvents,
                         events>>

\* the patched WorkspaceLeaf.detach; the patch is registered while loaded
Detach ==
    \E l \in Leaves :
      /\ leaves[l].attached
      /\ calendarFileModes' =
           IF loaded /\ leaves[l].file # "" /\ calendarFileModes[l] # ""
           THEN [calendarFileModes EXCEPT ![l] = ""]
           ELSE calendarFileModes
      /\ leaves' = [leaves EXCEPT ![l] =
                      [attached |-> FALSE, type |-> "empty", file |-> "",
                       choice |-> "", everMarkdown |-> FALSE]]
      /\ last' = [op |-> "detach", leaf |-> l, file |-> leaves[l].file,
                  before |-> calendarFileModes[l], applied |-> ""]
      /\ UNCHANGED loaded
      /\ UNCHANGED <<parserVars, settings, file, data, currentEvents, events>>

NextLeaf ==
    \/ Onload
    \/ Onunload
    \/ OpenFile
    \/ OpenAsMarkdown
    \/ OpenAsCalendar
    \/ Detach

SpecLeaf == InitLeaf /\ [][NextLeaf]_vars

\* ================================================================== claims
\* helpers of the statements below
Range(seq) == {seq[i] : i \in 1..Len(seq)}

IsSpan(f, i) == f.start <= i /\ i < f.end

\* the tokens of l whose 0-based offset lies in no span of fs, in order
RECURSIVE OutsideSpans(_, _, _)
OutsideSpans(l, fs, i) ==
    IF i >= Len(l) THEN <<>>
    ELSE (IF \E k \in 1..Len(fs) : IsSpan(fs[k], i) THEN <<>> ELSE <<l[i + 1]>>)
         \o OutsideSpans(l, fs, i + 1)

\* the maximal runs of non-whitespace tokens of s, in order
RECURSIVE Words(_, _)
Words(s, cur) ==
    IF s = <<>> THEN (IF cur = <<>> THEN <<>> ELSE <<cur>>)
    ELSE IF IsWs(Head(s))
    THEN (IF cur = <<>> THEN <<>> ELSE <<cur>>) \o Words(Tail(s), <<>>)
    ELSE Words(Tail(s), Append(cur, Head(s)))

RECURSIVE JoinBySpace(_)
JoinBySpace(ws) ==
    IF ws = <<>> THEN <<>>
    ELSE IF Len(ws) = 1 THEN ws[1]
    ELSE ws[1] \o <<SP>> \o JoinBySpace(Tail(ws))

\* C2: the list returned by extractAllDates is ordered by increasing start, its
\* fields never overlap, every returned field is one of the grammars' matches
\* unchanged, and a match is left out only when its start lies inside the span
\* of a kept field that starts at or before it.
C2_SortedDisjointGreedy ==
    call.fn = "extractAllDates" =>
      LET r == ret.fields
          c == Candidates(line, call.formatFilter)
      IN /\ \A i \in 1..Len(r) - 1 :
               r[i].start <= r[i + 1].start /\ r[i].end <= r[i + 1].start
         /\ \A i \in 1..Len(r) : r[i] \in Range(c)
         /\ \A k \in 1..Len(c) :
               c[k] \notin Range(r) =>
                 \E i \in 1..Len(r) :
                    /\ r[i].start <= c[k].start
                    /\ c[k].start < r[i].end
                    /\ \A j \in i + 1..Len(r) : r[j].start > c[k].start

\* C2 witness: two grammars claimed overlapping spans and one match was dropped
C2_Witness ==
    /\ call.fn = "extractAllDates"
    /\ Len(ret.fields) >= 1
    /\ Len(ret.fields) < Len(Candidates(line, call.formatFilter))

\* C3: formatting a field returned by extractAllDates with its own type, date,
\* format and hasTime gives a string that extractAllDates parses into exactly
\* one field of the same type, the same date and time of day and the same format.
C3_RoundTrip ==
    call.fn = "roundTrip" =>
      /\ Len(ret.fields) = 1
      /\ ret.fields[1].type = ret.field.type
      /\ ret.fields[1].date = ret.field.date
      /\ ret.fields[1].format = ret.field.format

\* C3 witness: a Kanban field with a time of day went round
C3_Witness ==
    /\ call.fn = "roundTrip"
    /\ ret.field.format = "kanban"
    /\ ret.field.hasTime
    /\ MinOfDay(ret.field.date) # 0
    /\ Len(ret.fields) = 1

\* C3 second witness: a Dataview field of type Done, written with the key "done"
C3_WitnessDone ==
    /\ call.fn = "roundTrip"
    /\ ret.field.format = "dataview-bracket"
    /\ ret.field.type = Done
    /\ ret.text[2] = Ch("completed")

\* C4: the rewrite pipeline (stripDates, then reconstructLine with every
\* extracted field formatted by formatDate) applied to a line it produced itself
\* returns that line unchanged.
C4_FixedPoint ==
    call.fn = "rewrite" => ret.again = ret.text

\* C5: after stripping and re-inserting the N >= 1 fields of a line, the line
\* holds all N formatted fields, and they stand in the order Start, Scheduled,
\* Due, Created, Done, Cancelled.
CanonicalRank(type) == CHOOSE n \in 1..Len(CanonicalOrder) : CanonicalOrder[n] = type

C5_AllFieldsCanonical ==
    (call.fn = "rewrite" /\ Len(extractAllDates(line, "")) >= 1) =>
      LET fs == extractAllDates(line, "")
          out == extractAllDates(ret.text, "")
      IN /\ Len(out) = Len(fs)
         /\ \A i \in 1..Len(fs) :
               Includes(ret.text,
                        formatDate(fs[i].type, fs[i].date, fs[i].format, fs[i].hasTime))
         /\ \A i \in 1..Len(out) - 1 :
               CanonicalRank(out[i].type) <= CanonicalRank(out[i + 1].type)

\* C6: a Dataview field with a known key and the value YYYY-MM-DDTHH:mm (a real
\* date and a real clock time) is extracted with the time of day HH:mm.
C6_DataviewTime ==
    call.fn = "extractAllDates" =>
      \A i \in 1..Len(ret.fields) :
        LET f == ret.fields[i]
            v == SkipWs(f.raw, IndexOf(f.raw, Ch("::"), 0) + 1)
        IN (/\ f.format \in {"dataview-bracket", "dataview-paren"}
            /\ IsDateShape(At(f.raw, v))
            /\ At(f.raw, v + 1) = Ch("T")
            /\ IsTimeShape(At(f.raw, v + 2))
            /\ At(f.raw, v + 2)[3] <= 23
            /\ At(f.raw, v + 2)[4] <= 59)
           => (/\ HourOf(f.date) = At(f.raw, v + 2)[3]
               /\ MinuteOf(f.date) = At(f.raw, v + 2)[4])

\* the date token YYYY-MM-DD of the calendar day a moment falls on
DayTok(mt) ==
    CHOOSE tok \in {DateTok(m, d) : m \in 1..12, d \in 1..31} :
        /\ DateValid(tok)
        /\ MomentOfDate(tok) <= mt
        /\ mt < MomentOfDate(tok) + MinutesPerDay

\* the clock token HH:mm of a moment, zero-padded
ClockTok(mt) == TimeTok("2", (mt % MinutesPerDay) \div 60, mt % 60)

\* C7: stripDates returns the line itself when extractAllDates finds no field;
\* otherwise it returns the tokens outside the fields' [start, end) spans, in
\* order, with every whitespace run collapsed to one space and both ends trimmed.
C7_StripFrame ==
    call.fn = "stripDates" =>
      LET fs == extractAllDates(line, "")
      IN IF Len(fs) = 0 THEN ret.text = line
         ELSE ret.text = JoinBySpace(Words(OutsideSpans(line, fs, 0), <<>>))

\* C7 witness: a field was cut out of a tab-led line and only the title is left
C7_Witness ==
    /\ call.fn = "stripDates"
    /\ Len(extractAllDates(line, "")) >= 1
    /\ line[1] = TAB
    /\ ret.text = <<Ch("Task")>>

\* C8: getPrimaryDate returns null exactly when extractAllDates(line,
\* formatFilter) is empty; otherwise the leftmost field of the first type of
\* priorityOrder that occurs among the fields, and the leftmost field of all
\* when no type of priorityOrder occurs.
C8_PrimaryDate ==
    call.fn = "getPrimaryDate" =>
      LET fs == extractAllDates(line, call.formatFilter)
          p == call.priorityOrder
          present == {k \in 1..Len(p) : \E i \in 1..Len(fs) : fs[i].type = p[k]}
      IN IF Len(fs) = 0 THEN ret.field = Null
         ELSE /\ ret.field # Null
              /\ IF present = {} THEN ret.field = fs[1]
                 ELSE LET k == CHOOSE a \in present : \A b \in present : a <= b
                          hits == {i \in 1..Len(fs) : fs[i].type = p[k]}
                          i == CHOOSE a \in hits : \A b \in hits : a <= b
                      IN ret.field = fs[i]

\* C8 witness: the priority order picked a field that is not the leftmost one
C8_Witness ==
    /\ call.fn = "getPrimaryDate"
    /\ Len(call.priorityOrder) > 0
    /\ Len(extractAllDates(line, call.formatFilter)) >= 2
    /\ ret.field = extractAllDates(line, call.formatFilter)[2]
    /\ ret.field.type # extractAllDates(line, call.formatFilter)[1].type

\* the first symbol of each type, and the key formatDate writes for it
FirstSymbolOf(type) ==
    CASE type = "due" -> Ch("U+1F4C5")
      [] type = "start" -> Ch("U+1F6EB")
      [] type = "scheduled" -> Ch("U+23F3")
      [] type = "created" -> Ch("U+2795")
      [] type = "completed" -> Ch("U+2705")
      [] type = "cancelled" -> Ch("U+274C")

\* C9: formatDate emits a time exactly when includeTime is true, the hour or
\* the minute of the date is non-zero and the format is not simple; the text is
\* the symbol, wrapper or brace form of the format, and "@ YYYY-MM-DD" for simple.
C9_FormatDate ==
    call.fn = "formatDate" =>
      LET d == DayTok(call.date)
          t == ClockTok(call.date)
          timed == call.includeTime /\ call.date % MinutesPerDay # 0
          sym == FirstSymbolOf(call.type)
          key == Ch(call.type)
      IN ret.text =
           CASE call.format = "tasks" ->
                  IF timed THEN <<sym, SP, d, SP, t>> ELSE <<sym, SP, d>>
             [] call.format = "dataview-bracket" ->
                  IF timed THEN <<Ch("["), key, Ch("::"), SP, d, Ch("T"), t, Ch("]")>>
                  ELSE <<Ch("["), key, Ch("::"), SP, d, Ch("]")>>
             [] call.format = "dataview-paren" ->
                  IF timed THEN <<Ch("("), key, Ch("::"), SP, d, Ch("T"), t, Ch(")")>>
                  ELSE <<Ch("("), key, Ch("::"), SP, d, Ch(")")>>
             [] call.format = "kanban" ->
                  IF timed
                  THEN <<Ch("@"), Ch("{"), d, Ch("}"), SP,
                         Ch("@"), Ch("@"), Ch("{"), t, Ch("}")>>
                  ELSE <<Ch("@"), Ch("{"), d, Ch("}")>>
             [] call.format = "simple" -> <<Ch("@"), SP, d>>

\* C9 witness: a time of 00:05 was written in the Kanban form
C9_Witness ==
    /\ call.fn = "formatDate"
    /\ call.format = "kanban"
    /\ call.includeTime
    /\ call.date % MinutesPerDay = 5
    /\ Len(ret.text) = 10

\* the leftmost field of a type among a task's fields
HasType(fs, type) == \E i \in 1..Len(fs) : fs[i].type = type

LeftmostOf(fs, type) ==
    fs[CHOOSE i \in 1..Len(fs) :
         fs[i].type = type /\ \A j \in 1..i - 1 : fs[j].type # type]

\* "YYYY-MM-DD HH:mm" and "YYYY-MM-DD" of a moment
AsDateTime(mt) == <<DayTok(mt), SP, ClockTok(mt)>>
AsDateOnly(mt) == <<DayTok(mt)>>

\* the start/end pair the table gives for a task
TableOf(task) ==
    LET fs == task.allDates
        S == LeftmostOf(fs, "start")
        D == LeftmostOf(fs, "due")
        point(mt, timed) ==
          IF timed THEN <<AsDateTime(mt), AsDateTime(mt + 30)>>
          ELSE <<AsDateOnly(mt), AsDateOnly(mt)>>
    IN IF task.isKanban /\ task.hasTime THEN point(task.date, TRUE)
       ELSE IF HasType(fs, "start") /\ HasType(fs, "due")
       THEN IF ~S.hasTime /\ ~D.hasTime
            THEN <<AsDateOnly(S.date), AsDateOnly(D.date)>>
            ELSE <<AsDateTime(S.date),
                   IF D.hasTime THEN AsDateTime(D.date)
                   ELSE <<DayTok(D.date), SP, TimeTok("2", 23, 59)>> >>
       ELSE IF HasType(fs, "start") THEN point(S.date, S.hasTime)
       ELSE IF HasType(fs, "due") THEN point(D.date, D.hasTime)
       ELSE point(task.date, task.hasTime)

\* C10: every parsed task has one calendar event, in the same position, whose
\* start and end are the pair of the table: Kanban with a time, Start and Due,
\* Start or Due alone, or the primary date, each date-only or date-time.
C10_EventTable ==
    /\ Len(events) = Len(currentEvents)
    /\ \A i \in 1..Len(currentEvents) :
          /\ events[i].id = currentEvents[i].id
          /\ <<events[i].start, events[i].end>> = TableOf(currentEvents[i])

\* C10 witness: after a refresh, a timed Start with a date-only Due ends at
\* 23:59 of the Due day
C10_Witness ==
    last.refreshed /\ \E i \in 1..Len(currentEvents) :
        LET fs == currentEvents[i].allDates
        IN /\ ~currentEvents[i].isKanban
           /\ HasType(fs, "start") /\ HasType(fs, "due")
           /\ LeftmostOf(fs, "start").hasTime
           /\ ~LeftmostOf(fs, "due").hasTime
           /\ events[i].end[3] = TimeTok("2", 23, 59)

\* C1: after a drop was written to the file and the file re-parsed with the
\* same settings, the event of the rewritten line starts on the calendar date
\* of newStart.
C1_DropLandsOnNewStart ==
    (last.op = "drop" /\ last.wrote /\ last.refreshed) =>
      \E i \in 1..Len(events) :
          /\ events[i].id = last.target
          /\ events[i].start[1] = DayTok(last.newStart)

\* the state between a drop's write and the refresh that follows it: data and
\* currentEvents are still those the drop read, file holds the rewritten line
DropWritten == last.op = "drop" /\ last.wrote /\ ~last.refreshed

\* the task the last gesture was about, as the view held it
GestureTask == currentEvents[CHOOSE i \in 1..Len(currentEvents) : currentEvents[i].id = last.id]

\* the fields of the line the last gesture wrote, read with every grammar
WrittenFields == extractAllDates(file[last.target + 1], "")

\* C11: for a task with a Start and a Due field (both in the emoji form) and a
\* drop reported at the default times 00:00 or 12:00, the Start and Due that
\* handleEventDrop writes are as far apart as the original Start and Due were.
C11_DurationPreserved ==
    (/\ DropWritten
     /\ isDefaultDropTime(last.newStart)
     /\ isDefaultDropTime(last.newEnd)
     /\ HasType(GestureTask.allDates, "start")
     /\ HasType(GestureTask.allDates, "due")
     /\ LeftmostOf(GestureTask.allDates, "start").format = "tasks"
     /\ LeftmostOf(GestureTask.allDates, "due").format = "tasks")
    => /\ HasType(WrittenFields, "start")
       /\ HasType(WrittenFields, "due")
       /\ LeftmostOf(WrittenFields, "due").date - LeftmostOf(WrittenFields, "start").date
            = LeftmostOf(GestureTask.allDates, "due").date
                - LeftmostOf(GestureTask.allDates, "start").date

\* the last calendar day a reported range covers: an end at 00:00 of a later
\* day is exclusive
InclusiveEndDay(newStart, newEnd) ==
    IF newEnd % MinutesPerDay = 0 /\ DayOf(newEnd) > DayOf(newStart)
    THEN DayOf(newEnd) - 1
    ELSE DayOf(newEnd)

\* C12: after a resize to a range of several days, or with a clock time at both
\* ends, was written and the file re-parsed under the configured format, the
\* task of the rewritten line has a Start field on the new start date and a Due
\* field on the new inclusive end date.
C12_ResizeGivesStartAndDue ==
    (/\ last.op = "resize" /\ last.wrote /\ last.refreshed
     /\ \/ InclusiveEndDay(last.newStart, last.newEnd) # DayOf(last.newStart)
        \/ (last.newStart % MinutesPerDay # 0 /\ last.newEnd % MinutesPerDay # 0))
    => \E i \in 1..Len(currentEvents) :
          LET fs == currentEvents[i].allDates
          IN /\ currentEvents[i].lineIndex = last.target
             /\ HasType(fs, "start")
             /\ HasType(fs, "due")
             /\ DayOf(LeftmostOf(fs, "start").date) = DayOf(last.newStart)
             /\ DayOf(LeftmostOf(fs, "due").date)
                  = InclusiveEndDay(last.newStart, last.newEnd)

\* the first token of a date's shape, and of a time's shape, in a matched text
FirstDateTok(raw) ==
    raw[CHOOSE i \in 1..Len(raw) :
          IsDateShape(raw[i]) /\ \A j \in 1..i - 1 : ~IsDateShape(raw[j])]

HasTimeTok(raw) == \E i \in 1..Len(raw) : IsTimeShape(raw[i])

FirstTimeTok(raw) ==
    raw[CHOOSE i \in 1..Len(raw) :
          IsTimeShape(raw[i]) /\ \A j \in 1..i - 1 : ~IsTimeShape(raw[j])]

\* the tokens @@{HH:mm} of a line, in order, as their time tokens
RECURSIVE KanbanTimesOf(_)
KanbanTimesOf(l) ==
    IF Len(l) < 5 THEN <<>>
    ELSE IF /\ l[1] = Ch("@") /\ l[2] = Ch("@") /\ l[3] = Ch("{")
            /\ IsTimeShape(l[4]) /\ l[5] = Ch("}")
    THEN <<l[4]>> \o KanbanTimesOf(SubSeq(l, 6, Len(l)))
    ELSE KanbanTimesOf(Tail(l))

IsClockTime(t) == t[3] <= 23 /\ t[4] <= 59

\* C13: every field extractAllDates returns was read from a real calendar date;
\* an emoji field with a time token, and a Kanban field on a line with a time
\* token, was read from a real clock time; the field's date is that date at
\* that time, and at 00:00 when no time token was matched.
C13_OnlyRealDatesAndTimes ==
    call.fn = "extractAllDates" =>
      \A i \in 1..Len(ret.fields) :
        LET f == ret.fields[i]
            d == FirstDateTok(f.raw)
            ktimes == KanbanTimesOf(line)
        IN /\ DateValid(d)
           /\ IF f.format = "tasks" /\ HasTimeTok(f.raw)
              THEN /\ IsClockTime(FirstTimeTok(f.raw))
                   /\ f.date = MomentOfDate(d) + FirstTimeTok(f.raw)[3] * 60
                                 + FirstTimeTok(f.raw)[4]
              ELSE IF f.format = "kanban" /\ ktimes # <<>>
              THEN /\ IsClockTime(ktimes[1])
                   /\ f.date = MomentOfDate(d) + ktimes[1][3] * 60 + ktimes[1][4]
              ELSE f.date = MomentOfDate(d)

\* the tokens @{YYYY-MM-DD} of a line that hold a real date, in order
RECURSIVE KanbanDatesOf(_)
KanbanDatesOf(l) ==
    IF Len(l) < 4 THEN <<>>
    ELSE IF /\ l[1] = Ch("@") /\ l[2] = Ch("{") /\ IsDateShape(l[3]) /\ l[4] = Ch("}")
    THEN (IF DateValid(l[3]) THEN <<l[3]>> ELSE <<>>)
         \o KanbanDatesOf(SubSeq(l, 5, Len(l)))
    ELSE KanbanDatesOf(Tail(l))

\* C14: under the kanban filter, a line with k tokens @{YYYY-MM-DD} gives k Due
\* fields of format kanban; when the line has a token @@{HH:mm} (a real clock
\* time in the first one) every field has hasTime and the time of the first
\* such token; without one every field has no time and is at 00:00.
C14_KanbanLineTime ==
    (/\ call.fn = "extractAllDates"
     /\ call.formatFilter = "kanban"
     /\ KanbanTimesOf(line) # <<>> => IsClockTime(KanbanTimesOf(line)[1]))
    => LET dates == KanbanDatesOf(line)
           times == KanbanTimesOf(line)
           clock == IF times = <<>> THEN 0 ELSE times[1][3] * 60 + times[1][4]
       IN /\ Len(ret.fields) = Len(dates)
          /\ \A i \in 1..Len(dates) :
                /\ ret.fields[i].type = "due"
                /\ ret.fields[i].format = "kanban"
                /\ ret.fields[i].hasTime = (times # <<>>)
                /\ ret.fields[i].date = MomentOfDate(dates[i]) + clock

\* C14 witness: a line with two different time tokens gave a field the first one
C14_Witness ==
    /\ call.fn = "extractAllDates"
    /\ call.formatFilter = "kanban"
    /\ Len(KanbanTimesOf(line)) = 2
    /\ KanbanTimesOf(line)[1] # KanbanTimesOf(line)[2]
    /\ IsClockTime(KanbanTimesOf(line)[1])
    /\ Len(ret.fields) >= 1
    /\ ret.fields[1].hasTime
    /\ MinOfDay(ret.fields[1].date)
         = KanbanTimesOf(line)[1][3] * 60 + KanbanTimesOf(line)[1][4]

\* the rules of the call that are enabled, apply to the file and hold for the task
Qualifying ==
    {i \in 1..Len(call.colorRules) :
       LET rule == call.colorRules[i]
       IN /\ rule.enabled
          /\ \/ ~rule.hasApplyToFiles
             \/ rule.applyToFiles = <<>>
             \/ call.filePath \in Range(rule.applyToFiles)
          /\ checkCondition(call.task, rule, ColorSections, Today)}

\* the theme the call should resolve, given whether the section color counts
ExpectedTheme(sectionCounts) ==
    IF Qualifying # {}
    THEN call.colorRules[CHOOSE i \in Qualifying : \A j \in Qualifying : i <= j].color
    ELSE IF sectionCounts /\ call.sourceConfig.sectionColors[call.task.sectionId] # NoTheme
    THEN call.sourceConfig.sectionColors[call.task.sectionId]
    ELSE IF call.sourceConfig.color # NoTheme THEN call.sourceConfig.color
    ELSE Theme("default")

VariantOf(theme) == IF call.isDarkMode THEN theme.dark ELSE theme.light

\* C15 as stated: the color is that of the first qualifying rule, else the
\* section's custom color, else the file's base color, else the default; light
\* or dark by isDarkMode.
C15_ColorOrder ==
    call.fn = "getEventColor" => ret.color = VariantOf(ExpectedTheme(TRUE))

\* C15 amended: the same order, but the section's custom color counts only when
\* isAllSectionsView is true.
C15_ColorOrderAllSections ==
    call.fn = "getEventColor" =>
      ret.color = VariantOf(ExpectedTheme(call.isAllSectionsView))

\* C15 witness: no rule of two qualified and, outside the combined view, the
\* configured section color was passed over for the file's base color
C15_Witness ==
    /\ call.fn = "getEventColor"
    /\ Qualifying = {}
    /\ Len(call.colorRules) = 2
    /\ ~call.isAllSectionsView
    /\ call.sourceConfig.sectionColors[call.task.sectionId] # NoTheme
    /\ call.sourceConfig.color # NoTheme
    /\ ret.color = VariantOf(call.sourceConfig.color)

\* C16 (as stated): once the plugin is loaded, a markdown view-state request
\* for a file on a leaf is rewritten to the calendar view exactly when the
\* file's cached frontmatter key is truthy and the leaf's recorded mode is
\* not "markdown"; and once the user has switched a leaf to markdown, every
\* later markdown request on that leaf passes through unchanged for as long
\* as the leaf is attached
RewrittenExactlyWhen ==
    (last.op = "setViewState" /\ loaded) =>
       ((last.applied = VIEW_TYPE_CALENDAR) <=>
          (Truthy(FrontmatterKey(last.file)) /\ last.before # "markdown"))

C16_MarkdownUntilDetach ==
    /\ RewrittenExactlyWhen
    /\ (last.op = "setViewState" /\ leaves[last.leaf].everMarkdown) =>
          last.applied = "markdown"

\* C16 (amended): the same, the markdown choice lasting until the leaf is
\* detached or the user switches the leaf back to the calendar view
C16_MarkdownUntilDetachOrCalendar ==
    /\ RewrittenExactlyWhen
    /\ (last.op = "setViewState" /\ leaves[last.leaf].choice = "markdown") =>
          last.applied = "markdown"

\* C16 witness: a calendar file is requested on a leaf the user switched to
\* markdown, and the request passed through
C16_Witness ==
    /\ last.op = "setViewState"
    /\ loaded
    /\ leaves[last.leaf].choice = "markdown"
    /\ Truthy(FrontmatterKey(last.file))
    /\ last.applied = "markdown"


\* C17: no lost update: when two edits of the view that concern different
\* lines write one after the other with no refresh of the view's data between
\* them, the file after the second write still contains the change of the
\* first (the line it wrote, or the absence of the line it deleted)
C17_NoLostUpdate ==
    (last.writes = 2 /\ last.target # last.first.target) =>
       IF last.first.op = "delete"
       THEN last.first.old \notin Range(file)
       ELSE last.first.new \in Range(file)


\* the field types a drop reschedules: Start and Due when the task has both,
\* else the type of its primary date
RescheduledTypes(task) ==
    IF HasType(task.allDates, "start") /\ HasType(task.allDates, "due")
    THEN {"start", "due"}
    ELSE {task.dateType}

\* the fields of the line as the drop found it, read with every grammar
OriginalFields == extractAllDates(data[last.target + 1], "")

\* C18: a drop keeps every date field of the line that it does not
\* reschedule: each field that extractAllDates with all grammars finds in the
\* original line, of a type other than the rescheduled ones, has a field of the
\* same type and date in the rewritten line, whatever grammar it is written in
C18_OtherFieldsKept ==
    DropWritten =>
      \A k \in 1..Len(OriginalFields) :
         OriginalFields[k].type \notin RescheduledTypes(GestureTask) =>
            \E j \in 1..Len(WrittenFields) :
               /\ WrittenFields[j].type = OriginalFields[k].type
               /\ WrittenFields[j].date = OriginalFields[k].date


\* the leading indentation and checkbox prefix of a task line: the match of
\* /^\s*-\s*\[.\]/
IndentAndCheckbox(taskLine) ==
    Slice(taskLine, 0, SkipWs(taskLine, SkipWs(taskLine, 0) + 1) + 3)

\* C19: the line a drop or a resize writes starts with the same leading
\* indentation and the same checkbox prefix as the line it replaces
C19_IndentationKept ==
    (last.op \in {"drop", "resize"} /\ last.wrote /\ ~last.refreshed) =>
       LET original == data[last.target + 1]
           written == file[last.target + 1]
       IN Slice(written, 0, Len(IndentAndCheckbox(original)))
            = IndentAndCheckbox(original)


\* C20: after any sequence of drops of a Kanban task, each followed by a
\* re-parse of the file, the task line has at most one @@{HH:mm} token, and
\* after a drop whose newStart has a clock time other than 00:00 the re-parsed
\* Due field has that time
C20_KanbanOneTime ==
    (last.op = "drop" /\ last.wrote /\ last.refreshed) =>
       /\ Len(KanbanTimesOf(file[last.target + 1])) <= 1
       /\ last.newStart % MinutesPerDay # 0 =>
            \E i \in 1..Len(currentEvents) :
               /\ currentEvents[i].lineIndex = last.target
               /\ HasType(currentEvents[i].allDates, "due")
               /\ LeftmostOf(currentEvents[i].allDates, "due").hasTime
               /\ LeftmostOf(currentEvents[i].allDates, "due").date % MinutesPerDay
                    = last.newStart % MinutesPerDay


\* C21: after a drop reported at the default times (00:00 or 12:00) every
\* rescheduled field that had a time of day still has that clock time in the
\* written line, for a Start+Due pair and for a single primary date alike
C21_ClockTimeKept ==
    (/\ DropWritten
     /\ isDefaultDropTime(last.newStart)
     /\ isDefaultDropTime(last.newEnd))
    => \A t \in RescheduledTypes(GestureTask) :
          (HasType(GestureTask.allDates, t)
             /\ LeftmostOf(GestureTask.allDates, t).hasTime)
          => \E j \in 1..Len(WrittenFields) :
                /\ WrittenFields[j].type = t
                /\ WrittenFields[j].hasTime
                /\ WrittenFields[j].date % MinutesPerDay
                     = LeftmostOf(GestureTask.allDates, t).date % MinutesPerDay


\* the task the handler call of the behaviour was about
Acted == last.task[1]

\* some field of fs has the type, the format and the moment of f
SameFieldIn(fs, f) ==
    \E j \in 1..Len(fs) :
       /\ fs[j].type = f.type
       /\ fs[j].format = f.format
       /\ fs[j].date = f.date

\* C22: when updateTask writes with the task's own calendar date or no date,
\* every date field of the rewritten line has the type, format, calendar date
\* and time of day of a field of the original line, and the task's fields, the
\* primary one included, are all found again in the rewritten line
C22_UpdateKeepsDates ==
    (last.op = "updateTask" /\ last.wrote) =>
       LET original == extractAllDates(Acted.markdown, "")
           written == extractAllDates(file[Acted.lineIndex + 1], "")
       IN /\ \A j \in 1..Len(written) : SameFieldIn(original, written[j])
          /\ \A k \in 1..Len(Acted.allDates) :
                SameFieldIn(written, Acted.allDates[k])


\* the handlers that check the line before they write
GuardedHandlers ==
    {"updateTask", "deleteTask", "handleEventResize",
     "moveTaskToCompletedSection"}

RewrittenLines ==
    {k \in 1..Len(file) : k > Len(last.before) \/ file[k] # last.before[k]}

\* the line is the task's own: its recorded markdown, or that line reworded
HoldsTask(content, task) ==
    content \in {task.markdown, task.markdown \o <<SP, Ch("!")>>}

\* C24: toggleTaskCompletion and handleEventDrop, called when the data no
\* longer has the task's markdown at task.lineIndex, rewrite no line other
\* than the one that holds that task: a rewritten line is the task's line
C24_OnlyOwnLine ==
    (/\ last.op \in {"toggleTaskCompletion", "handleEventDrop"}
     /\ last.stale /\ last.wrote)
    => \A k \in RewrittenLines : HoldsTask(last.before[k], Acted)


\* C25: normalizeAllDayEnd returns newEnd unchanged unless newEnd is at 00:00
\* or 12:00 on a later calendar day than newStart; then it returns newEnd one
\* day earlier, at 23:59 exactly when the task, its Start field or its Due
\* field has an explicit time, and at the reported clock time otherwise
C25_NormalizeAllDayEnd ==
    call.fn = "normalizeAllDayEnd" =>
      LET endDay == call.newEnd \div MinutesPerDay
          startDay == call.newStart \div MinutesPerDay
          clock == call.newEnd % MinutesPerDay
          explicit == \/ call.task.hasTime
                      \/ (call.startField # Null /\ call.startField.hasTime)
                      \/ (call.dueField # Null /\ call.dueField.hasTime)
      IN ret.moment =
           IF clock \in {0, 12 * 60} /\ endDay > startDay
           THEN IF explicit
                THEN (endDay - 1) * MinutesPerDay + 23 * 60 + 59
                ELSE (endDay - 1) * MinutesPerDay + clock
           ELSE call.newEnd

\* C25 witness: a noon end on a later day was pulled back to 23:59 of the day
\* before because the Due field has a time
C25_Witness ==
    /\ call.fn = "normalizeAllDayEnd"
    /\ call.newEnd = MomentOfDate(DateTok(2, 2)) + 12 * 60
    /\ ~call.task.hasTime
    /\ call.startField = Null
    /\ call.dueField # Null /\ call.dueField.hasTime
    /\ ret.moment = MomentOfDate(DateTok(2, 1)) + 23 * 60 + 59


\* the moment an event string "YYYY-MM-DD" or "YYYY-MM-DD HH:mm" names
EventMoment(str) ==
    MomentOfDate(str[1]) + (IF Len(str) = 3 THEN str[3][3] * 60 + str[3][4] ELSE 0)

\* C26: every event that updateCalendarEvents produced for a parsed task ends
\* at or after its start
C26_EndNotBeforeStart ==
    \A i \in 1..Len(events) :
       EventMoment(events[i].end) >= EventMoment(events[i].start)


\* the Done field of today as toggleTaskCompletion's format writes it
DoneToday(dateFormat) ==
    IF dateFormat = "tasks" THEN <<Ch("U+2705"), SP, DayTok(Now)>>
    ELSE <<Ch("["), Ch("completed"), Ch("::"), SP, DayTok(Now), Ch("]")>>

\* a and b are the same task line but for the character in the checkbox
OnlyMarkDiffers(a, b) ==
    /\ Len(a) = Len(b)
    /\ TaskPrefix(a)[1]
    /\ \A j \in 1..Len(a) :
          a[j] # b[j] => j > 1 /\ a[j - 1] = Ch("[") /\ TaskPrefix(a)[2] = a[j]

\* the Done fields the parser reads in a task line
DoneFieldsIn(taskLine, dateFormat) ==
    {f \in Range(extractAllDates(Slice(taskLine, TaskPrefix(taskLine)[3],
                                       Len(taskLine)), dateFormat)) :
       f.type = Done}

\* what one click did, c being its record and dateFormat the setting
ClickAsStated(c, dateFormat) ==
    /\ TaskPrefix(c.after)[2] = (IF c.task.completed THEN SP ELSE Ch("x"))
    /\ dateFormat \in {"simple", "kanban"} => OnlyMarkDiffers(c.before, c.after)
    /\ dateFormat \in {"tasks", "dataview"} /\ ~c.task.completed =>
          /\ Len(c.after) = Len(TrimEnd(c.before)) + 1 + Len(DoneToday(dateFormat))
          /\ OnlyMarkDiffers(TrimEnd(c.before),
                             SubSeq(c.after, 1, Len(TrimEnd(c.before))))
          /\ SubSeq(c.after, Len(TrimEnd(c.before)) + 1, Len(c.after))
               = <<SP>> \o DoneToday(dateFormat)
          /\ Cardinality(DoneFieldsIn(c.after, dateFormat))
               = Cardinality(DoneFieldsIn(c.before, dateFormat)) + 1
    /\ dateFormat \in {"tasks", "dataview"} /\ c.task.completed =>
          DoneFieldsIn(c.after, dateFormat) = {}

\* completing click c, then a re-parse, then click d on the same line, the
\* line having had no Done field and no trailing whitespace
RoundTripAsStated(c, d, dateFormat) ==
    /\ dateFormat \in {"tasks", "dataview"}
    /\ c.task.lineIndex = d.task.lineIndex
    /\ ~c.task.completed
    /\ d.fresh
    /\ DoneFieldsIn(c.before, dateFormat) = {}
    /\ TrimEnd(c.before) = c.before
    => d.after = c.before

\* C27: every click of toggleTaskCompletion sets or clears the checkbox and,
\* with tasks or dataview, appends one Done field of today or leaves no Done
\* field on the line; with simple or kanban only the checkbox changes; and
\* completing then un-completing after a re-parse restores a line that had no
\* Done field and no trailing whitespace
C27_ToggleRoundTrip ==
    \A k \in 1..Len(last.clicks) :
       /\ ClickAsStated(last.clicks[k], settings.recognizedDateFormat)
       /\ k > 1 => RoundTripAsStated(last.clicks[k - 1], last.clicks[k],
                                     settings.recognizedDateFormat)

\* the round trip of C27 alone
C27_RoundTripOnly ==
    \A k \in 2..Len(last.clicks) :
       RoundTripAsStated(last.clicks[k - 1], last.clicks[k],
                         settings.recognizedDateFormat)

\* a round trip that the precondition of C27 covers has happened
C27_RoundTripReached ==
    /\ Len(last.clicks) = 2
    /\ last.clicks[2].fresh
    /\ settings.recognizedDateFormat \in {"tasks", "dataview"}
    /\ last.clicks[1].task.lineIndex = last.clicks[2].task.lineIndex
    /\ ~last.clicks[1].task.completed
    /\ DoneFieldsIn(last.clicks[1].before, settings.recognizedDateFormat) = {}
    /\ TrimEnd(last.clicks[1].before) = last.clicks[1].before

====
